---------------------------- MODULE Spec2Model ----------------------------
(***************************************************************************)
(* State-machine model of the custom video renderer of                     *)
(* src/CustomVideoRenderer/CustomVideoRenderer.cpp (the last, most         *)
(* complete version of the renderer in that file, lines 2880-5353):        *)
(*                                                                         *)
(*   CustomVideoStreamSink  the stream sink: state machine, media type     *)
(*                          negotiation, event queue adapter and the       *)
(*                          sample-admission work item (RequestSamples)    *)
(*   CustomVideoRenderer    the media sink that owns the one stream sink   *)
(*                                                                         *)
(* Threads.  The lifecycle operations, the event-queue adapter and         *)
(* Get/SetCurrentMediaType run under the stream sink's critical section    *)
(* (CAutoLock lock(&m_critSec)) and are one atomic action each.            *)
(* RequestSamples (the work item) and ProcessSample take no lock: they are *)
(* modelled statement by statement, the read and the write of              *)
(* m_cOutstandingSampleRequests++ / -- being separate steps.  GetEvent     *)
(* holds the lock only while it copies the queue pointer.                  *)
(*                                                                         *)
(* External framework calls (MFScheduleWorkItem, the IMFMediaEventQueue    *)
(* methods on a queue that is not shut down) are taken to succeed.         *)
(***************************************************************************)
EXTENDS Integers, Sequences, FiniteSets, Bags, TLC

(***************************************************************************)
(* Bounds of the model.                                                    *)
(***************************************************************************)
\* Work items (scheduled or running RequestSamples invocations) alive at once.
MaxWorkItems == 2
\* ProcessSample calls in one behaviour (caps the debug counter m_count).
MaxSamples == 2
\* A client calls the public QueueEvent only while fewer events are pending.
MaxQueue == 2
\* Entries of s_pVideoFormats offered as candidates (a prefix of the catalog).
MaxFormats == 2

(***************************************************************************)
(* Program constants.                                                      *)
(***************************************************************************)
SAMPLE_QUEUE_HIWATER_THRESHOLD == 3
\* A DWORD is 32 bits wide.  It is held as << high word, low word >>, each in
\* 0..WORD_MOD-1, so that ++ and -- wrap exactly as the unsigned type does.
WORD_MOD == 65536
DWORD(n) == << n \div WORD_MOD, n % WORD_MOD >>
DWORD_MAX == << WORD_MOD - 1, WORD_MOD - 1 >>
DWordInc(d) ==
    IF d[2] < WORD_MOD - 1 THEN << d[1], d[2] + 1 >>
    ELSE << (d[1] + 1) % WORD_MOD, 0 >>
DWordDec(d) ==
    IF d[2] > 0 THEN << d[1], d[2] - 1 >>
    ELSE << (d[1] + WORD_MOD - 1) % WORD_MOD, WORD_MOD - 1 >>
\* Unsigned d < e, d <= e.
DWordLess(d, e) == d[1] < e[1] \/ (d[1] = e[1] /\ d[2] < e[2])
DWordLeq(d, e) == d = e \/ DWordLess(d, e)

S_OK == "S_OK"
E_POINTER == "E_POINTER"
E_FAIL == "E_FAIL"
MF_E_SHUTDOWN == "MF_E_SHUTDOWN"
MF_E_INVALIDREQUEST == "MF_E_INVALIDREQUEST"
MF_E_NOT_INITIALIZED == "MF_E_NOT_INITIALIZED"
MF_E_NO_MORE_TYPES == "MF_E_NO_MORE_TYPES"
MF_E_INVALIDMEDIATYPE == "MF_E_INVALIDMEDIATYPE"
MF_E_NO_EVENTS_AVAILABLE == "MF_E_NO_EVENTS_AVAILABLE"
MF_E_MULTIPLE_SUBSCRIBERS == "MF_E_MULTIPLE_SUBSCRIBERS"
MF_E_STREAMSINKS_FIXED == "MF_E_STREAMSINKS_FIXED"
MF_E_INVALIDSTREAMNUMBER == "MF_E_INVALIDSTREAMNUMBER"
MF_E_INVALIDINDEX == "MF_E_INVALIDINDEX"
MF_E_NO_CLOCK == "MF_E_NO_CLOCK"
E_OUTOFMEMORY == "E_OUTOFMEMORY"

SUCCEEDED(hr) == hr = S_OK
FAILED(hr) == hr # S_OK

NULL == "NULL"
GUID_NULL == "GUID_NULL"
DXGI_FORMAT_UNKNOWN == "DXGI_FORMAT_UNKNOWN"

\* enum class State
State_TypeNotSet == "State_TypeNotSet"
State_Ready == "State_Ready"
State_Started == "State_Started"
State_Paused == "State_Paused"
State_Stopped == "State_Stopped"
State == {State_TypeNotSet, State_Ready, State_Started, State_Paused, State_Stopped}

\* enum class StreamOperation
OpSetMediaType == "OpSetMediaType"
OpStart == "OpStart"
OpRestart == "OpRestart"
OpPause == "OpPause"
OpStop == "OpStop"
OpProcessSample == "OpProcessSample"
OpPlaceMarker == "OpPlaceMarker"
StreamOperation ==
    {OpSetMediaType, OpStart, OpRestart, OpPause, OpStop, OpProcessSample, OpPlaceMarker}

\* One row of the matrix, in the column order of the source.
MatrixRow(setType, start, restart, pause, stop, sample, marker) ==
    [op \in StreamOperation |->
        CASE op = OpSetMediaType -> setType
          [] op = OpStart -> start
          [] op = OpRestart -> restart
          [] op = OpPause -> pause
          [] op = OpStop -> stop
          [] op = OpProcessSample -> sample
          [] op = OpPlaceMarker -> marker]

ValidStateMatrix ==
    [s \in State |->
        CASE s = State_TypeNotSet -> MatrixRow(TRUE, FALSE, FALSE, FALSE, FALSE, FALSE, FALSE)
          [] s = State_Ready      -> MatrixRow(TRUE, TRUE,  TRUE,  TRUE,  TRUE,  FALSE, TRUE)
          [] s = State_Started    -> MatrixRow(TRUE, TRUE,  FALSE, TRUE,  TRUE,  TRUE,  TRUE)
          [] s = State_Paused     -> MatrixRow(TRUE, TRUE,  TRUE,  TRUE,  TRUE,  TRUE,  TRUE)
          [] s = State_Stopped    -> MatrixRow(TRUE, TRUE,  FALSE, FALSE, TRUE,  FALSE, TRUE)]

ValidateOperation_AllowAll(state, op) == S_OK

ValidateOperation(state, op) ==
    IF ValidStateMatrix[state][op] THEN S_OK ELSE MF_E_INVALIDREQUEST

(***************************************************************************)
(* Format catalog.                                                         *)
(***************************************************************************)
s_pVideoFormats ==
    << "NV12", "IYUV", "YUY2", "YV12", "RGB32", "RGB32", "RGB24", "RGB555",
       "RGB565", "RGB8", "AYUV", "UYVY", "YVYU", "YVU9", "V216", "v410",
       "I420", "NV11", "420O" >>
s_dwNumVideoFormats == Len(s_pVideoFormats)

\* s_DXGIFormatMapping as the set of its (Subtype, DXGIFormat) entries; no
\* subtype occurs twice, so the first match of the source's loop is the match.
s_DXGIFormatMapping ==
    { <<"RGB32", "DXGI_FORMAT_B8G8R8X8_UNORM">>, <<"ARGB32", "DXGI_FORMAT_R8G8B8A8_UNORM">>,
      <<"AYUV", "DXGI_FORMAT_AYUV">>, <<"YUY2", "DXGI_FORMAT_YUY2">>,
      <<"NV12", "DXGI_FORMAT_NV12">>, <<"NV11", "DXGI_FORMAT_NV11">>,
      <<"AI44", "DXGI_FORMAT_AI44">>, <<"P010", "DXGI_FORMAT_P010">>,
      <<"P016", "DXGI_FORMAT_P016">>, <<"Y210", "DXGI_FORMAT_Y210">>,
      <<"Y216", "DXGI_FORMAT_Y216">>, <<"Y410", "DXGI_FORMAT_Y410">>,
      <<"Y416", "DXGI_FORMAT_Y416">>, <<"420O", "DXGI_FORMAT_420_OPAQUE">> }

\* Subtypes outside the catalog that a caller may still propose.
UnsupportedSubtypes == {"H264", "ARGB32"}

\* The media types a caller passes: a subtype of the catalog prefix, a subtype
\* the catalog does not hold, or a null pointer.
CatalogSubtypes == {s_pVideoFormats[i] : i \in 1..MaxFormats}
CandidateTypes == CatalogSubtypes \cup UnsupportedSubtypes \cup {NULL}
\* The media types offered where the negotiation itself is not the subject: the
\* first entry of the catalog and a null pointer.
LifecycleTypes == {s_pVideoFormats[1], NULL}


(***************************************************************************)
(* State.                                                                  *)
(***************************************************************************)
VARIABLES
    \* CustomVideoStreamSink members
    m_state,                        \* State m_state
    m_IsShutdown,                   \* bool m_IsShutdown
    m_pSink,                        \* ComPtr<IMFMediaSink> m_pSink
    m_pCurrentType,                 \* ComPtr<IMFMediaType>: NULL or the subtype of the held type
    m_pEventQueue,                  \* ComPtr<IMFMediaEventQueue>: NULL or "queue"
    m_imageBytesPP,                 \* sFraction <<Numerator, Denominator>>
    m_dxgiFormat,                   \* DXGI_FORMAT m_dxgiFormat
    m_cOutstandingSampleRequests,   \* DWORD, as << high word, low word >>
    m_count,                        \* int m_count (ProcessSample calls so far)
    \* the IMFMediaEventQueue object made by MFCreateEventQueue
    events,                         \* the queued events, oldest first
    eqSubscribed,                   \* a BeginGetEvent is outstanding
    eqShutdownCalls,                \* times IMFMediaEventQueue::Shutdown was called
    \* the work items of MFScheduleWorkItem(&m_WorkQueueCB, ...)
    scheduled,                      \* work items waiting for their timer
    running,                        \* bag of RequestSamples invocations in progress
    \* the streaming thread inside ProcessSample, the consumer inside GetEvent
    sampleThread,
    eventThread,
    \* CustomVideoRenderer members
    sink_IsShutdown,                \* CustomVideoRenderer::m_IsShutdown
    m_pStream,                      \* ComPtr<CustomVideoStreamSink>: NULL or "stream"
    m_pClock,                       \* ComPtr<IMFPresentationClock>: NULL or a clock
    clockSinks,                     \* the clocks that hold this media sink as a state sink
    m_csMediaSink,                  \* CCritSec: [owner, count]
    m_csStreamSinkAndScheduler,     \* CCritSec (the stream sink's m_critSec): [owner, count]
    \* the threads inside a method, seen at the level of its critical sections:
    \* for each thread the method it is in and the lock steps it still has to take
    callers,
    \* CPlayer: its members, the application thread's position inside its
    \* methods, the IMFMediaSession it holds, and the messages posted to the
    \* application window
    player,                         \* [m_state, m_pSession, m_pSource, m_hCloseEvent]
    playerThread,                   \* [pc] or [pc, caller] while CloseSession waits
    session,                        \* [events, requests]
    posted,                         \* WM_APP_PLAYER_EVENT messages, oldest first
    \* a statement dereferenced a reference that Shutdown had released
    usedReleased,
    \* the last statement executed / call returned: [op, arg, hr, out, flushed]
    ret

streamVars ==
    << m_state, m_IsShutdown, m_pSink, m_pCurrentType, m_pEventQueue, m_imageBytesPP,
       m_dxgiFormat, m_cOutstandingSampleRequests, m_count >>
queueVars == << events, eqSubscribed, eqShutdownCalls >>
workVars == << scheduled, running >>
threadVars == << sampleThread, eventThread >>
lockVars == << m_csMediaSink, m_csStreamSinkAndScheduler, callers >>
playerVars == << player, playerThread, session, posted >>
sinkVars == << sink_IsShutdown, m_pStream, m_pClock, clockSinks, lockVars, playerVars >>
vars == << streamVars, queueVars, workVars, threadVars, sinkVars, usedReleased, ret >>

Ret(op, arg, hr, out, flushed) ==
    [op |-> op, arg |-> arg, hr |-> hr, out |-> out, flushed |-> flushed]

Idle == [pc |-> "idle"]

\* A critical section nobody owns; the threads that call into the two sinks;
\* a thread that is in no method.
Unowned == [owner |-> NULL, count |-> 0]
Callers == {"clock", "pump", "tick", "app"}
Outside == [op |-> NULL, todo |-> << >>]

\* PlayerState, as the values CPlayer assigns to and compares with m_state.
Closed == "Closed"
Ready == "Ready"
OpenPending == "OpenPending"
Started == "Started"
Paused == "Paused"
Stopped == "Stopped"
Closing == "Closing"

\* CPlayer::CPlayer and CPlayer::Initialize: no session, no source, state
\* Closed, and an auto-reset close event that is not signalled.
NewPlayer ==
    [m_state |-> Closed, m_pSession |-> NULL, m_pSource |-> NULL,
     m_hCloseEvent |-> FALSE]

\* No media session: no event queued, no BeginGetEvent request outstanding.
NoSession == [events |-> << >>, requests |-> 0]

\* The holder of the stream sink's lock m_critSec between two steps.  Every
\* method that takes the lock runs to its end in one step, so the lock is free
\* between steps unless the consumer's GetEvent kept it past its lock scope, or
\* a thread followed step by step stands inside the critical section.
m_critSec ==
    IF eventThread.pc = "GetEvent" /\ eventThread.lock THEN "consumer"
    ELSE m_csStreamSinkAndScheduler.owner

Init ==
    /\ m_state = State_TypeNotSet
    /\ m_IsShutdown = FALSE
    /\ m_pSink = "sink"
    /\ m_pCurrentType = NULL
    /\ m_pEventQueue = "queue"
    /\ m_imageBytesPP = <<1, 1>>
    /\ m_dxgiFormat = DXGI_FORMAT_UNKNOWN
    /\ m_cOutstandingSampleRequests = DWORD(0)
    /\ m_count = 0
    /\ events = << >>
    /\ eqSubscribed = FALSE
    /\ eqShutdownCalls = 0
    /\ scheduled = 0
    /\ running = EmptyBag
    /\ sampleThread = Idle
    /\ eventThread = Idle
    /\ sink_IsShutdown = FALSE
    /\ m_pStream = "stream"
    /\ m_pClock = NULL
    /\ clockSinks = {}
    /\ m_csMediaSink = Unowned
    /\ m_csStreamSinkAndScheduler = Unowned
    /\ callers = [t \in Callers |-> Outside]
    /\ player = NewPlayer
    /\ playerThread = Idle
    /\ session = NoSession
    /\ posted = << >>
    /\ usedReleased = FALSE
    /\ ret = Ret("CreateInstance", NULL, S_OK, NULL, FALSE)

(***************************************************************************)
(* CustomVideoStreamSink: helpers.                                         *)
(***************************************************************************)
CheckShutdown == IF m_IsShutdown THEN MF_E_SHUTDOWN ELSE S_OK

NeedMoreSamples_BelowTwo ==
    DWordLess(m_cOutstandingSampleRequests, DWORD(2))

NeedMoreSamples ==
    DWordLess(m_cOutstandingSampleRequests, DWORD(SAMPLE_QUEUE_HIWATER_THRESHOLD))

\* Whether a statement dereferencing pointer p uses a released reference.
UsesReleased(p) == p = NULL

\* QueueEvent: CheckShutdown, then m_pEventQueue->QueueEventParamVar.
QueueEventHr == CheckShutdown
QueueEventUses == SUCCEEDED(CheckShutdown) /\ UsesReleased(m_pEventQueue)
QueueEventResult(met) == IF SUCCEEDED(CheckShutdown) THEN Append(events, met) ELSE events
\* QueueRequest: MFScheduleWorkItem(&m_WorkQueueCB, nullptr, -interval, &cancelKey).
QueueRequestHr == S_OK

WorkItems == scheduled + BagCardinality(running)

(***************************************************************************)
(* CustomVideoStreamSink: lifecycle operations (each under m_critSec).     *)
(***************************************************************************)
Pause_QueuesEvent ==
    LET hr == ValidateOperation(m_state, OpPause) IN
    /\ m_critSec = NULL
    /\ m_state' = IF SUCCEEDED(hr) THEN State_Paused ELSE m_state
    /\ events' = IF SUCCEEDED(hr) THEN QueueEventResult("MEStreamSinkPaused") ELSE events
    /\ ret' = Ret("Pause", NULL, hr, NULL, FALSE)
    /\ UNCHANGED << m_IsShutdown, m_pSink, m_pCurrentType, m_pEventQueue, m_imageBytesPP,
                    m_dxgiFormat, m_cOutstandingSampleRequests, m_count >>
    /\ UNCHANGED << eqSubscribed, eqShutdownCalls, workVars, threadVars, sinkVars,
                    usedReleased >>

Pause ==
    LET hr == ValidateOperation(m_state, OpPause) IN
    /\ m_critSec = NULL
    /\ m_state' = IF SUCCEEDED(hr) THEN State_Paused ELSE m_state
    /\ ret' = Ret("Pause", NULL, hr, NULL, FALSE)
    /\ UNCHANGED << m_IsShutdown, m_pSink, m_pCurrentType, m_pEventQueue, m_imageBytesPP,
                    m_dxgiFormat, m_cOutstandingSampleRequests, m_count >>
    /\ UNCHANGED << queueVars, workVars, threadVars, sinkVars, usedReleased >>

Restart ==
    LET hr == ValidateOperation(m_state, OpRestart) IN
    /\ m_critSec = NULL
    /\ m_state' = IF SUCCEEDED(hr) THEN State_Started ELSE m_state
    /\ ret' = Ret("Restart", NULL, hr, NULL, FALSE)
    /\ UNCHANGED << m_IsShutdown, m_pSink, m_pCurrentType, m_pEventQueue, m_imageBytesPP,
                    m_dxgiFormat, m_cOutstandingSampleRequests, m_count >>
    /\ UNCHANGED << queueVars, workVars, threadVars, sinkVars, usedReleased >>

Stop ==
    LET hr == ValidateOperation(m_state, OpStop) IN
    /\ m_critSec = NULL
    /\ m_state' = IF SUCCEEDED(hr) THEN State_Stopped ELSE m_state
    /\ ret' = Ret("Stop", NULL, hr, NULL, FALSE)
    /\ UNCHANGED << m_IsShutdown, m_pSink, m_pCurrentType, m_pEventQueue, m_imageBytesPP,
                    m_dxgiFormat, m_cOutstandingSampleRequests, m_count >>
    /\ UNCHANGED << queueVars, workVars, threadVars, sinkVars, usedReleased >>

\* The start times a caller passes.
StartTimes == {"PRESENTATION_CURRENT_POSITION", "NewPosition"}

\* Start: the matrix is consulted first; on success the state is set, then
\* CheckShutdown guards only the QueueEvent, and QueueRequest runs either way and
\* gives the result.
Start(start) ==
    LET hr == ValidateOperation(m_state, OpStart) IN
    /\ m_critSec = NULL
    /\ IF FAILED(hr)
       THEN /\ ret' = Ret("Start", start, hr, NULL, FALSE)
            /\ UNCHANGED << streamVars, queueVars, workVars, threadVars, sinkVars,
                            usedReleased >>
       ELSE /\ WorkItems < MaxWorkItems
            /\ m_state' = State_Started
            /\ events' = QueueEventResult("MEStreamSinkStarted")
            /\ scheduled' = scheduled + 1
            /\ ret' = Ret("Start", start, QueueRequestHr, NULL, FALSE)
            /\ UNCHANGED << m_IsShutdown, m_pSink, m_pCurrentType, m_pEventQueue,
                            m_imageBytesPP, m_dxgiFormat, m_cOutstandingSampleRequests,
                            m_count >>
            /\ usedReleased' = (usedReleased \/ QueueEventUses)
            /\ UNCHANGED << eqSubscribed, eqShutdownCalls, running, threadVars, sinkVars >>

\* The body of CustomVideoStreamSink::Shutdown on the members and the queue.
\* IMFMediaEventQueue::Shutdown drops the queued events and the pending
\* subscriber; MFUnlockWorkQueue(m_WorkQueueId) is given the id 0 that was never
\* allocated and cancels no scheduled work item.
StreamShutdownBody_KeepQueue ==
    /\ m_IsShutdown' = TRUE
    /\ eqShutdownCalls' = eqShutdownCalls + 1
    /\ events' = << >>
    /\ eqSubscribed' = FALSE
    /\ m_pSink' = NULL
    /\ m_pEventQueue' = m_pEventQueue
    /\ m_pCurrentType' = NULL
    /\ UNCHANGED << m_state, m_imageBytesPP, m_dxgiFormat, m_cOutstandingSampleRequests,
                    m_count >>
    /\ UNCHANGED << workVars, threadVars >>

StreamShutdownBody ==
    /\ m_IsShutdown' = TRUE
    /\ IF m_pEventQueue # NULL
       THEN /\ eqShutdownCalls' = eqShutdownCalls + 1
            /\ events' = << >>
            /\ eqSubscribed' = FALSE
       ELSE UNCHANGED queueVars
    /\ m_pSink' = NULL
    /\ m_pEventQueue' = NULL
    /\ m_pCurrentType' = NULL
    /\ UNCHANGED << m_state, m_imageBytesPP, m_dxgiFormat, m_cOutstandingSampleRequests,
                    m_count >>
    /\ UNCHANGED << workVars, threadVars >>

\* CustomVideoStreamSink::Shutdown called on the stream sink itself.
Shutdown ==
    /\ m_critSec = NULL
    /\ StreamShutdownBody
    /\ ret' = Ret("Shutdown", NULL, MF_E_SHUTDOWN, NULL, FALSE)
    /\ UNCHANGED << sinkVars, usedReleased >>

(***************************************************************************)
(* The admission work item: the framework invokes m_WorkQueueCB, which     *)
(* runs RequestSamples.  RequestSamples takes no lock; only the QueueEvent *)
(* it calls does.  One action per statement, t the invocation's state      *)
(* [pc, reg]: reg holds the value read by m_cOutstandingSampleRequests++.  *)
(***************************************************************************)
Tick(pc, reg) == [pc |-> pc, reg |-> reg]

Move(t, u) == running' = (running (-) SetToBag({t})) (+) SetToBag({u})

\* The callback's GetParameters returns E_NOTIMPL, so the timer dispatches it on
\* the platform's standard work queue, which runs one callback at a time.
Invoke ==
    /\ scheduled > 0
    /\ running = EmptyBag
    /\ scheduled' = scheduled - 1
    /\ running' = running (+) SetToBag({Tick("while", DWORD(0))})
    /\ ret' = Ret("Invoke", NULL, S_OK, NULL, FALSE)
    /\ UNCHANGED << streamVars, queueVars, threadVars, sinkVars, usedReleased >>

\* while (NeedMoreSamples())
RequestSamples_While(t) ==
    /\ t.pc = "while"
    /\ Move(t, Tick(IF NeedMoreSamples THEN "CheckShutdown" ELSE "QueueRequest", t.reg))
    /\ ret' = Ret("RequestSamples", "while", S_OK, NULL, FALSE)
    /\ UNCHANGED << streamVars, queueVars, scheduled, threadVars, sinkVars, usedReleased >>

\* hr = CheckShutdown(); if (FAILED(hr)) break;
RequestSamples_CheckShutdown(t) ==
    /\ t.pc = "CheckShutdown"
    /\ Move(t, Tick(IF FAILED(CheckShutdown) THEN "QueueRequest" ELSE "load", t.reg))
    /\ ret' = Ret("RequestSamples", "CheckShutdown", CheckShutdown, NULL, FALSE)
    /\ UNCHANGED << streamVars, queueVars, scheduled, threadVars, sinkVars, usedReleased >>

\* m_cOutstandingSampleRequests++ : the read
RequestSamples_Load(t) ==
    /\ t.pc = "load"
    /\ Move(t, Tick("store", m_cOutstandingSampleRequests))
    /\ ret' = Ret("RequestSamples", "load", S_OK, NULL, FALSE)
    /\ UNCHANGED << streamVars, queueVars, scheduled, threadVars, sinkVars, usedReleased >>

\* m_cOutstandingSampleRequests++ : the write
RequestSamples_Store(t) ==
    /\ t.pc = "store"
    /\ m_cOutstandingSampleRequests' = DWordInc(t.reg)
    /\ Move(t, Tick("QueueEvent", DWORD(0)))
    /\ ret' = Ret("RequestSamples", "store", S_OK, NULL, FALSE)
    /\ UNCHANGED << m_state, m_IsShutdown, m_pSink, m_pCurrentType, m_pEventQueue,
                    m_imageBytesPP, m_dxgiFormat, m_count >>
    /\ UNCHANGED << queueVars, scheduled, threadVars, sinkVars, usedReleased >>

\* hr = QueueEvent(MEStreamSinkRequestSample, GUID_NULL, S_OK, NULL);
RequestSamples_QueueEvent(t) ==
    /\ m_critSec = NULL
    /\ t.pc = "QueueEvent"
    /\ events' = QueueEventResult("MEStreamSinkRequestSample")
    /\ Move(t, Tick("while", t.reg))
    /\ ret' = Ret("RequestSamples", "QueueEvent", QueueEventHr, NULL, FALSE)
    /\ usedReleased' = (usedReleased \/ QueueEventUses)
    /\ UNCHANGED << streamVars, eqSubscribed, eqShutdownCalls, scheduled, threadVars,
                    sinkVars >>

\* hr = QueueRequest(); return hr;  (after the loop, whatever ended it)
RequestSamples_QueueRequest(t) ==
    /\ t.pc = "QueueRequest"
    /\ running' = running (-) SetToBag({t})
    /\ scheduled' = scheduled + 1
    /\ ret' = Ret("RequestSamples", "QueueRequest", QueueRequestHr, NULL, FALSE)
    /\ UNCHANGED << streamVars, queueVars, threadVars, sinkVars, usedReleased >>

RequestSamples ==
    \E t \in BagToSet(running) :
        \/ RequestSamples_While(t)
        \/ RequestSamples_CheckShutdown(t)
        \/ RequestSamples_Load(t)
        \/ RequestSamples_Store(t)
        \/ RequestSamples_QueueEvent(t)
        \/ RequestSamples_QueueRequest(t)

(***************************************************************************)
(* ProcessSample: no lock, no ValidateOperation, no CheckShutdown.         *)
(* ++m_count and the read of m_cOutstandingSampleRequests-- are the first  *)
(* step; the write and everything after it (which touches only the sample) *)
(* the second.  A malformed sample is one whose GetBufferCount or buffer   *)
(* access fails: its failure code is returned.  ret.out is the buffer the  *)
(* call extracted from the sample (GetBufferByIndex or                     *)
(* ConvertToContiguousBuffer), NULL when it extracted none.                *)
(***************************************************************************)
Samples == {"sample", "malformed"}

ProcessSample_Load(pSample) ==
    /\ sampleThread.pc = "idle"
    /\ m_count < MaxSamples
    /\ m_count' = m_count + 1
    /\ sampleThread' = [pc |-> "store", reg |-> m_cOutstandingSampleRequests,
                        sample |-> pSample]
    /\ ret' = Ret("ProcessSample_load", pSample, S_OK, NULL, FALSE)
    /\ UNCHANGED << m_state, m_IsShutdown, m_pSink, m_pCurrentType, m_pEventQueue,
                    m_imageBytesPP, m_dxgiFormat, m_cOutstandingSampleRequests >>
    /\ UNCHANGED << queueVars, workVars, eventThread, sinkVars, usedReleased >>

ProcessSample ==
    /\ sampleThread.pc = "store"
    /\ m_cOutstandingSampleRequests' = DWordDec(sampleThread.reg)
    /\ sampleThread' = Idle
    /\ ret' = Ret("ProcessSample", sampleThread.sample,
                  IF sampleThread.sample = "malformed" THEN E_FAIL ELSE S_OK,
                  IF sampleThread.sample = "malformed" THEN NULL ELSE "pBuffer", FALSE)
    /\ UNCHANGED << m_state, m_IsShutdown, m_pSink, m_pCurrentType, m_pEventQueue,
                    m_imageBytesPP, m_dxgiFormat, m_count >>
    /\ UNCHANGED << queueVars, workVars, eventThread, sinkVars, usedReleased >>

(***************************************************************************)
(* IMFMediaEventGenerator: the event queue adapter.                        *)
(***************************************************************************)
\* The event type a caller of the public QueueEvent passes: one the sink does
\* not queue itself, so the two sources of events can be told apart.
EventTypes == {"MEError"}

BeginGetEvent ==
    LET hr == CheckShutdown IN
    /\ m_critSec = NULL
    /\ usedReleased' = (usedReleased \/ (SUCCEEDED(hr) /\ UsesReleased(m_pEventQueue)))
    /\ eqSubscribed' = IF SUCCEEDED(hr) THEN TRUE ELSE eqSubscribed
    /\ ret' = Ret("BeginGetEvent", NULL,
                  IF SUCCEEDED(hr) /\ eqSubscribed THEN MF_E_MULTIPLE_SUBSCRIBERS ELSE hr,
                  NULL, FALSE)
    /\ UNCHANGED << streamVars, events, eqShutdownCalls, workVars, threadVars, sinkVars >>

\* EndGetEvent completes the outstanding BeginGetEvent with the oldest event.
EndGetEvent ==
    LET hr == CheckShutdown
        got == SUCCEEDED(hr) /\ eqSubscribed /\ events # << >>
    IN
    /\ m_critSec = NULL
    /\ usedReleased' = (usedReleased \/ (SUCCEEDED(hr) /\ UsesReleased(m_pEventQueue)))
    /\ events' = IF got THEN Tail(events) ELSE events
    /\ eqSubscribed' = IF got THEN FALSE ELSE eqSubscribed
    /\ ret' = Ret("EndGetEvent", NULL,
                  IF FAILED(hr) THEN hr ELSE IF got THEN S_OK ELSE E_FAIL,
                  IF got THEN Head(events) ELSE NULL, FALSE)
    /\ UNCHANGED << streamVars, eqShutdownCalls, workVars, threadVars, sinkVars >>

\* GetEvent, first part: under the lock, CheckShutdown and pQueue = m_pEventQueue.
EventFlags == {"0", "MF_EVENT_FLAG_NO_WAIT"}

GetEvent_Lock_KeepsLock(dwFlags) ==
    LET hr == CheckShutdown IN
    /\ m_critSec = NULL
    /\ eventThread.pc = "idle"
    /\ IF SUCCEEDED(hr)
       THEN /\ eventThread' = [pc |-> "GetEvent", pQueue |-> m_pEventQueue,
                               dwFlags |-> dwFlags, lock |-> TRUE]
            /\ ret' = Ret("GetEvent_lock", dwFlags, hr, NULL, FALSE)
       ELSE /\ eventThread' = Idle
            /\ ret' = Ret("GetEvent", dwFlags, hr, NULL, FALSE)
    /\ UNCHANGED << streamVars, queueVars, workVars, sampleThread, sinkVars, usedReleased >>

GetEvent_Lock(dwFlags) ==
    LET hr == CheckShutdown IN
    /\ m_critSec = NULL
    /\ eventThread.pc = "idle"
    /\ IF SUCCEEDED(hr)
       THEN /\ eventThread' = [pc |-> "GetEvent", pQueue |-> m_pEventQueue,
                               dwFlags |-> dwFlags, lock |-> FALSE]
            /\ ret' = Ret("GetEvent_lock", dwFlags, hr, NULL, FALSE)
       ELSE /\ eventThread' = Idle
            /\ ret' = Ret("GetEvent", dwFlags, hr, NULL, FALSE)
    /\ UNCHANGED << streamVars, queueVars, workVars, sampleThread, sinkVars, usedReleased >>

\* GetEvent, second part: pQueue->GetEvent(dwFlags, ppEvent) without the lock.
\* The queue returns its oldest event, MF_E_SHUTDOWN once it was shut down,
\* MF_E_NO_EVENTS_AVAILABLE when empty and asked not to wait, and blocks otherwise.
GetEvent_NoShutdownWake ==
    /\ eventThread.pc = "GetEvent"
    /\ usedReleased' = (usedReleased \/ UsesReleased(eventThread.pQueue))
    /\ eqShutdownCalls = 0
    /\ \/ /\ events # << >>
          /\ ret' = Ret("GetEvent", eventThread.dwFlags, S_OK, Head(events), FALSE)
          /\ events' = Tail(events)
       \/ /\ events = << >>
          /\ eventThread.dwFlags = "MF_EVENT_FLAG_NO_WAIT"
          /\ ret' = Ret("GetEvent", eventThread.dwFlags, MF_E_NO_EVENTS_AVAILABLE, NULL,
                        FALSE)
          /\ UNCHANGED events
    /\ eventThread' = Idle
    /\ UNCHANGED << streamVars, eqSubscribed, eqShutdownCalls, workVars, sampleThread,
                    sinkVars >>

GetEvent ==
    /\ eventThread.pc = "GetEvent"
    /\ usedReleased' = (usedReleased \/ UsesReleased(eventThread.pQueue))
    /\ \/ /\ eqShutdownCalls > 0
          /\ ret' = Ret("GetEvent", eventThread.dwFlags, MF_E_SHUTDOWN, NULL, FALSE)
          /\ UNCHANGED events
       \/ /\ eqShutdownCalls = 0
          /\ events # << >>
          /\ ret' = Ret("GetEvent", eventThread.dwFlags, S_OK, Head(events), FALSE)
          /\ events' = Tail(events)
       \/ /\ eqShutdownCalls = 0
          /\ events = << >>
          /\ eventThread.dwFlags = "MF_EVENT_FLAG_NO_WAIT"
          /\ ret' = Ret("GetEvent", eventThread.dwFlags, MF_E_NO_EVENTS_AVAILABLE, NULL,
                        FALSE)
          /\ UNCHANGED events
    /\ eventThread' = Idle
    /\ UNCHANGED << streamVars, eqSubscribed, eqShutdownCalls, workVars, sampleThread,
                    sinkVars >>

\* The public QueueEvent.
QueueEvent(met) ==
    /\ m_critSec = NULL
    /\ Len(events) < MaxQueue
    /\ usedReleased' = (usedReleased \/ QueueEventUses)
    /\ events' = QueueEventResult(met)
    /\ ret' = Ret("QueueEvent", met, QueueEventHr, NULL, FALSE)
    /\ UNCHANGED << streamVars, eqSubscribed, eqShutdownCalls, workVars, threadVars,
                    sinkVars >>

(***************************************************************************)
(* IMFMediaTypeHandler.                                                    *)
(***************************************************************************)
\* The out-pointer a caller passes: null or the address of a variable.
OutPointers == {NULL, "ptr"}

InCatalog(subType) == \E i \in 1..s_dwNumVideoFormats : s_pVideoFormats[i] = subType

\* The bytes-per-pixel ratio SetCurrentMediaType stores for a subtype.
ImageBytesPP_FailSafe(guidSubtype) == <<1, 1>>

ImageBytesPP(guidSubtype) ==
    IF guidSubtype \in {"NV12", "YV12", "IYUV", "YVU9", "I420"} THEN <<3, 2>>
    ELSE IF guidSubtype \in {"YUY2", "RGB555", "RGB565", "UYVY", "YVYU", "V216"} THEN <<2, 1>>
    ELSE IF guidSubtype = "RGB24" THEN <<3, 1>>
    ELSE IF guidSubtype = "RGB32" THEN <<4, 1>>
    ELSE IF guidSubtype = "v410" THEN <<5, 4>>
    ELSE <<1, 1>>

\* IStreamSink::Flush: nothing is buffered, it returns S_OK.
Flush == S_OK

IsMediaTypeSupportedHr_AcceptAll(pMediaType) ==
    IF FAILED(CheckShutdown) THEN CheckShutdown
    ELSE IF pMediaType = NULL THEN E_POINTER
    ELSE S_OK

IsMediaTypeSupportedHr(pMediaType) ==
    IF FAILED(CheckShutdown) THEN CheckShutdown
    ELSE IF pMediaType = NULL THEN E_POINTER
    ELSE IF InCatalog(pMediaType) THEN S_OK
    ELSE MF_E_INVALIDMEDIATYPE

\* m_dxgiFormat after IsMediaTypeSupported: written only when the type is
\* accepted and s_DXGIFormatMapping has an entry for its subtype.
IsMediaTypeSupportedDxgi(pMediaType) ==
    IF SUCCEEDED(IsMediaTypeSupportedHr(pMediaType))
       /\ \E e \in s_DXGIFormatMapping : e[1] = pMediaType
    THEN (CHOOSE e \in s_DXGIFormatMapping : e[1] = pMediaType)[2]
    ELSE m_dxgiFormat

\* The public IsMediaTypeSupported (it takes no lock).
IsMediaTypeSupported(pMediaType) ==
    /\ m_dxgiFormat' = IsMediaTypeSupportedDxgi(pMediaType)
    /\ ret' = Ret("IsMediaTypeSupported", pMediaType, IsMediaTypeSupportedHr(pMediaType),
                  NULL, FALSE)
    /\ UNCHANGED << m_state, m_IsShutdown, m_pSink, m_pCurrentType, m_pEventQueue,
                    m_imageBytesPP, m_cOutstandingSampleRequests, m_count >>
    /\ UNCHANGED << queueVars, workVars, threadVars, sinkVars, usedReleased >>

\* The state SetCurrentMediaType leaves: Ready unless Started or Paused.
SetTypeNextState_AlwaysReady(state) == State_Ready

SetTypeNextState_KeepState(state) == state

SetTypeNextState(state) ==
    IF State_Started # state /\ State_Paused # state THEN State_Ready ELSE state

SetCurrentMediaTypeHr(pMediaType) ==
    IF pMediaType = NULL THEN E_POINTER
    ELSE IF FAILED(CheckShutdown) THEN CheckShutdown
    ELSE IF FAILED(ValidateOperation(m_state, OpSetMediaType))
         THEN ValidateOperation(m_state, OpSetMediaType)
    ELSE IF FAILED(IsMediaTypeSupportedHr(pMediaType)) THEN IsMediaTypeSupportedHr(pMediaType)
    ELSE IF State_Started # m_state /\ State_Paused # m_state THEN S_OK
    ELSE Flush

SetCurrentMediaType(pMediaType) ==
    LET hr == SetCurrentMediaTypeHr(pMediaType)
        flushed == SUCCEEDED(hr) /\ ~(State_Started # m_state /\ State_Paused # m_state)
    IN
    /\ pMediaType # NULL => m_critSec = NULL
    /\ ret' = Ret("SetCurrentMediaType", pMediaType, hr, NULL, flushed)
    /\ IF SUCCEEDED(hr)
       THEN /\ m_dxgiFormat' = IsMediaTypeSupportedDxgi(pMediaType)
            /\ m_pCurrentType' = pMediaType
            /\ m_imageBytesPP' = ImageBytesPP(pMediaType)
            /\ m_state' = SetTypeNextState(m_state)
       ELSE UNCHANGED << m_dxgiFormat, m_pCurrentType, m_imageBytesPP, m_state >>
    /\ UNCHANGED << m_IsShutdown, m_pSink, m_pEventQueue, m_cOutstandingSampleRequests,
                    m_count >>
    /\ UNCHANGED << queueVars, workVars, threadVars, sinkVars, usedReleased >>

GetCurrentMediaTypeHr_NotInitialized(ppMediaType) ==
    IF ppMediaType = NULL THEN E_POINTER
    ELSE IF FAILED(CheckShutdown) THEN CheckShutdown
    ELSE MF_E_NOT_INITIALIZED

GetCurrentMediaTypeHr_IgnoreType(ppMediaType) ==
    IF ppMediaType = NULL THEN E_POINTER
    ELSE IF FAILED(CheckShutdown) THEN CheckShutdown
    ELSE IF m_pCurrentType = NULL THEN S_OK
    ELSE MF_E_NOT_INITIALIZED

GetCurrentMediaTypeHr(ppMediaType) ==
    IF ppMediaType = NULL THEN E_POINTER
    ELSE IF FAILED(CheckShutdown) THEN CheckShutdown
    ELSE IF m_pCurrentType = NULL THEN MF_E_NOT_INITIALIZED
    ELSE S_OK

GetCurrentMediaType(ppMediaType) ==
    LET hr == GetCurrentMediaTypeHr(ppMediaType) IN
    /\ m_critSec = NULL
    /\ ret' = Ret("GetCurrentMediaType", ppMediaType, hr,
                  IF SUCCEEDED(hr) THEN m_pCurrentType ELSE NULL, FALSE)
    /\ usedReleased' = (usedReleased \/ (SUCCEEDED(hr) /\ UsesReleased(m_pCurrentType)))
    /\ UNCHANGED << streamVars, queueVars, workVars, threadVars, sinkVars >>

GetMediaTypeCount(pdwTypeCount) ==
    LET hr == IF pdwTypeCount = NULL THEN E_POINTER ELSE CheckShutdown IN
    /\ ret' = Ret("GetMediaTypeCount", pdwTypeCount, hr,
                  IF SUCCEEDED(hr) THEN s_dwNumVideoFormats ELSE NULL, FALSE)
    /\ UNCHANGED << streamVars, queueVars, workVars, threadVars, sinkVars, usedReleased >>

\* The indices a caller passes: those of the catalog prefix and the first one
\* past the catalog.
TypeIndices == (0 .. MaxFormats - 1) \cup {s_dwNumVideoFormats}

GetMediaTypeByIndex(dwIndex, ppType) ==
    LET hr == IF ppType = NULL THEN E_POINTER
              ELSE IF FAILED(CheckShutdown) THEN CheckShutdown
              ELSE IF dwIndex >= s_dwNumVideoFormats THEN MF_E_NO_MORE_TYPES
              ELSE S_OK
    IN
    /\ ret' = Ret("GetMediaTypeByIndex", << dwIndex, ppType >>, hr,
                  IF SUCCEEDED(hr) THEN s_pVideoFormats[dwIndex + 1] ELSE NULL, FALSE)
    /\ UNCHANGED << streamVars, queueVars, workVars, threadVars, sinkVars, usedReleased >>

(***************************************************************************)
(* CustomVideoRenderer (the media sink).                                   *)
(***************************************************************************)
\* CustomVideoRenderer::Shutdown, under m_csMediaSink: it calls the stream
\* sink's Shutdown while it still holds the stream, then drops clock and stream
\* (m_pClock.Reset() releases the reference; no RemoveClockStateSink is called).
CustomVideoRenderer_Shutdown ==
    /\ m_pStream # NULL => m_critSec = NULL
    /\ sink_IsShutdown' = TRUE
    /\ IF m_pStream # NULL
       THEN StreamShutdownBody
       ELSE UNCHANGED << streamVars, queueVars, workVars, threadVars >>
    /\ m_pClock' = NULL
    /\ m_pStream' = NULL
    /\ ret' = Ret("CustomVideoRenderer::Shutdown", NULL, MF_E_SHUTDOWN, NULL, FALSE)
    /\ UNCHANGED << clockSinks, lockVars, playerVars, usedReleased >>

\* const DWORD STREAM_ID = 1
STREAM_ID == 1

\* CustomVideoRenderer::CheckShutdown
CustomVideoRenderer_CheckShutdown == IF sink_IsShutdown THEN MF_E_SHUTDOWN ELSE S_OK

\* The stream identifiers and indices a caller passes.
StreamIds == {0, STREAM_ID, 2}
StreamIndices == {0, 1}

AddStreamSinkHr_Accept(dwStreamSinkIdentifier, pMediaType, ppStreamSink) ==
    IF dwStreamSinkIdentifier = STREAM_ID THEN MF_E_STREAMSINKS_FIXED ELSE S_OK

AddStreamSinkHr(dwStreamSinkIdentifier, pMediaType, ppStreamSink) == MF_E_STREAMSINKS_FIXED

AddStreamSink(dwStreamSinkIdentifier, pMediaType, ppStreamSink) ==
    /\ ret' = Ret("AddStreamSink", << dwStreamSinkIdentifier, pMediaType, ppStreamSink >>,
                  AddStreamSinkHr(dwStreamSinkIdentifier, pMediaType, ppStreamSink),
                  NULL, FALSE)
    /\ UNCHANGED << streamVars, queueVars, workVars, threadVars, sinkVars, usedReleased >>

RemoveStreamSink(dwStreamSinkIdentifier) ==
    /\ ret' = Ret("RemoveStreamSink", dwStreamSinkIdentifier, MF_E_STREAMSINKS_FIXED,
                  NULL, FALSE)
    /\ UNCHANGED << streamVars, queueVars, workVars, threadVars, sinkVars, usedReleased >>

\* GetStreamSinkById: the stream is stored through ppStreamSink when the sink is
\* live, and the method then returns E_FAIL whatever hr holds.
GetStreamSinkByIdHr(dwStreamSinkIdentifier, ppStreamSink) ==
    IF ppStreamSink = NULL THEN E_POINTER
    ELSE IF dwStreamSinkIdentifier # STREAM_ID THEN MF_E_INVALIDSTREAMNUMBER
    ELSE E_FAIL

GetStreamSinkById(dwStreamSinkIdentifier, ppStreamSink) ==
    LET stored == /\ ppStreamSink # NULL
                  /\ dwStreamSinkIdentifier = STREAM_ID
                  /\ SUCCEEDED(CustomVideoRenderer_CheckShutdown)
    IN
    /\ ret' = Ret("GetStreamSinkById", << dwStreamSinkIdentifier, ppStreamSink >>,
                  GetStreamSinkByIdHr(dwStreamSinkIdentifier, ppStreamSink),
                  IF stored THEN m_pStream ELSE NULL, FALSE)
    /\ usedReleased' = (usedReleased \/ (stored /\ UsesReleased(m_pStream)))
    /\ UNCHANGED << streamVars, queueVars, workVars, threadVars, sinkVars >>

GetStreamSinkByIndexHr_AnyIndex(dwIndex, ppStreamSink) ==
    IF ppStreamSink = NULL THEN E_POINTER
    ELSE CustomVideoRenderer_CheckShutdown

GetStreamSinkByIndexHr(dwIndex, ppStreamSink) ==
    IF ppStreamSink = NULL THEN E_POINTER
    ELSE IF dwIndex > 0 THEN MF_E_INVALIDINDEX
    ELSE CustomVideoRenderer_CheckShutdown

GetStreamSinkByIndex(dwIndex, ppStreamSink) ==
    LET hr == GetStreamSinkByIndexHr(dwIndex, ppStreamSink) IN
    /\ ret' = Ret("GetStreamSinkByIndex", << dwIndex, ppStreamSink >>, hr,
                  IF SUCCEEDED(hr) THEN m_pStream ELSE NULL, FALSE)
    /\ usedReleased' = (usedReleased \/ (SUCCEEDED(hr) /\ UsesReleased(m_pStream)))
    /\ UNCHANGED << streamVars, queueVars, workVars, threadVars, sinkVars >>

GetStreamSinkCount(pcStreamSinkCount) ==
    LET hr == IF pcStreamSinkCount = NULL THEN E_POINTER
              ELSE CustomVideoRenderer_CheckShutdown
    IN
    /\ ret' = Ret("GetStreamSinkCount", pcStreamSinkCount, hr,
                  IF SUCCEEDED(hr) THEN 1 ELSE NULL, FALSE)
    /\ UNCHANGED << streamVars, queueVars, workVars, threadVars, sinkVars, usedReleased >>

\* The presentation clocks a caller passes: none, or one of two clocks.
Clocks == {NULL, "clock1", "clock2"}

\* What a clock answers to RemoveClockStateSink / AddClockStateSink.
ClockResults == {S_OK, E_FAIL}

\* SetPresentationClock, with the answers of the old clock's
\* RemoveClockStateSink and the new clock's AddClockStateSink as inputs.  A
\* successful RemoveClockStateSink takes this sink off the old clock's state
\* sinks, a successful AddClockStateSink puts it on the new clock's; a failed
\* call leaves the clock's state sinks as they were.
SetPresentationClockWith(pPresentationClock, hrRemove, hrAdd) ==
    LET hrShutdown == CustomVideoRenderer_CheckShutdown
        removing == SUCCEEDED(hrShutdown) /\ m_pClock # NULL
        hr1 == IF removing THEN hrRemove ELSE hrShutdown
        removed == IF removing /\ SUCCEEDED(hrRemove) THEN clockSinks \ {m_pClock}
                   ELSE clockSinks
        adding == SUCCEEDED(hr1) /\ pPresentationClock # NULL
        hr == IF adding THEN hrAdd ELSE hr1
        added == IF adding /\ SUCCEEDED(hrAdd) THEN removed \cup {pPresentationClock}
                 ELSE removed
    IN
    /\ ret' = Ret("SetPresentationClock", pPresentationClock, hr, NULL, FALSE)
    /\ clockSinks' = added
    /\ m_pClock' = IF SUCCEEDED(hr) THEN pPresentationClock ELSE m_pClock
    /\ UNCHANGED << sink_IsShutdown, m_pStream, lockVars, playerVars >>
    /\ UNCHANGED << streamVars, queueVars, workVars, threadVars, usedReleased >>

\* SetPresentationClock on clocks whose RemoveClockStateSink and
\* AddClockStateSink succeed.
SetPresentationClock(pPresentationClock) ==
    SetPresentationClockWith(pPresentationClock, S_OK, S_OK)

GetPresentationClock(ppPresentationClock) ==
    LET hr == IF ppPresentationClock = NULL THEN E_POINTER
              ELSE IF FAILED(CustomVideoRenderer_CheckShutdown)
                   THEN CustomVideoRenderer_CheckShutdown
              ELSE IF m_pClock = NULL THEN MF_E_NO_CLOCK
              ELSE S_OK
    IN
    /\ ret' = Ret("GetPresentationClock", ppPresentationClock, hr,
                  IF SUCCEEDED(hr) THEN m_pClock ELSE NULL, FALSE)
    /\ UNCHANGED << streamVars, queueVars, workVars, threadVars, sinkVars, usedReleased >>

\* GetCharacteristics: the null test comes before CheckShutdown.
GetCharacteristics(pdwCharacteristics) ==
    LET hr == IF pdwCharacteristics = NULL THEN E_POINTER
              ELSE CustomVideoRenderer_CheckShutdown
    IN
    /\ ret' = Ret("GetCharacteristics", pdwCharacteristics, hr,
                  IF SUCCEEDED(hr) THEN "MEDIASINK_FIXED_STREAMS" ELSE NULL, FALSE)
    /\ UNCHANGED << streamVars, queueVars, workVars, threadVars, sinkVars, usedReleased >>

(***************************************************************************)
(* IMFClockStateSink.  ret.out lists the stream sink methods the           *)
(* notification called, in the order called.                               *)
(***************************************************************************)
\* OnClockPause, OnClockRestart, OnClockStop: CheckShutdown, then the stream
\* sink's Pause, Restart or Stop, whose result is returned.
OnClockForward(notification, method, op, state) ==
    LET hrShutdown == CustomVideoRenderer_CheckShutdown
        hr == IF SUCCEEDED(hrShutdown) THEN ValidateOperation(m_state, op) ELSE hrShutdown
    IN
    /\ SUCCEEDED(hrShutdown) => m_critSec = NULL
    /\ m_state' = IF SUCCEEDED(hr) THEN state ELSE m_state
    /\ usedReleased' = (usedReleased \/ (SUCCEEDED(hrShutdown) /\ UsesReleased(m_pStream)))
    /\ ret' = Ret(notification, NULL, hr,
                  IF SUCCEEDED(hrShutdown) THEN << method >> ELSE << >>, FALSE)
    /\ UNCHANGED << m_IsShutdown, m_pSink, m_pCurrentType, m_pEventQueue, m_imageBytesPP,
                    m_dxgiFormat, m_cOutstandingSampleRequests, m_count >>
    /\ UNCHANGED << queueVars, workVars, threadVars, sinkVars >>

OnClockPause == OnClockForward("OnClockPause", "Pause", OpPause, State_Paused)

OnClockRestart == OnClockForward("OnClockRestart", "Restart", OpRestart, State_Started)

OnClockStop == OnClockForward("OnClockStop", "Stop", OpStop, State_Stopped)

\* The rates a clock announces.
Rates == {"1.0", "2.0"}

\* OnClockSetRate: the body is "return S_OK;" (no lock, no CheckShutdown, no
\* call on the stream sink).
OnClockSetRate(flRate) ==
    /\ ret' = Ret("OnClockSetRate", flRate, S_OK, << >>, FALSE)
    /\ UNCHANGED << streamVars, queueVars, workVars, threadVars, sinkVars, usedReleased >>

\* OnClockStart: CheckShutdown, the stream sink's Flush, and if that succeeded
\* its Start(llClockStartOffset), whose result is returned.
OnClockStart(llClockStartOffset) ==
    LET hrShutdown == CustomVideoRenderer_CheckShutdown
        hrFlush == Flush
        starts == SUCCEEDED(hrShutdown) /\ SUCCEEDED(hrFlush)
        hrValidate == ValidateOperation(m_state, OpStart)
        started == starts /\ SUCCEEDED(hrValidate)
        hr == IF FAILED(hrShutdown) THEN hrShutdown
              ELSE IF FAILED(hrFlush) THEN hrFlush
              ELSE IF FAILED(hrValidate) THEN hrValidate
              ELSE QueueRequestHr
    IN
    /\ SUCCEEDED(hrShutdown) => m_critSec = NULL
    /\ started => WorkItems < MaxWorkItems
    /\ m_state' = IF started THEN State_Started ELSE m_state
    /\ events' = IF started THEN QueueEventResult("MEStreamSinkStarted") ELSE events
    /\ scheduled' = IF started THEN scheduled + 1 ELSE scheduled
    /\ usedReleased' = (usedReleased \/ (SUCCEEDED(hrShutdown) /\ UsesReleased(m_pStream))
                                     \/ (started /\ QueueEventUses))
    /\ ret' = Ret("OnClockStart", llClockStartOffset, hr,
                  IF FAILED(hrShutdown) THEN << >>
                  ELSE IF FAILED(hrFlush) THEN << "Flush" >>
                  ELSE << "Flush", "Start" >>, SUCCEEDED(hrShutdown))
    /\ UNCHANGED << m_IsShutdown, m_pSink, m_pCurrentType, m_pEventQueue, m_imageBytesPP,
                    m_dxgiFormat, m_cOutstandingSampleRequests, m_count >>
    /\ UNCHANGED << eqSubscribed, eqShutdownCalls, running, threadVars, sinkVars >>

(***************************************************************************)
(* The two critical sections, step by step.  A method is followed through  *)
(* the EnterCriticalSection / LeaveCriticalSection calls its CAutoLock     *)
(* objects make; which of its branches it takes depends on data another    *)
(* thread may change meanwhile, so every branch is offered in every state. *)
(* What the method does to the data is the subject of the one-step actions *)
(* above and is left out here.                                             *)
(***************************************************************************)
LockMediaSink == << "Lock", "m_csMediaSink" >>
UnlockMediaSink == << "Unlock", "m_csMediaSink" >>
LockStreamSink == << "Lock", "m_csStreamSinkAndScheduler" >>
UnlockStreamSink == << "Unlock", "m_csStreamSinkAndScheduler" >>
\* pQueue->GetEvent: the wait for an event, outside every lock scope.
WaitForEvent == << "Wait", "pQueue" >>

\* CAutoLock lock(&m_csMediaSink) / CAutoLock lock(&m_critSec) around a body.
MediaSinkLocked(body) == << LockMediaSink >> \o body \o << UnlockMediaSink >>
StreamSinkLocked(body) == << LockStreamSink >> \o body \o << UnlockStreamSink >>

\* Start: the lock, and on an accepted call of a live sink QueueEvent, which
\* takes the same lock again.
StartLocks == { StreamSinkLocked(<< >>), StreamSinkLocked(StreamSinkLocked(<< >>)) }

\* The lock steps of a method, one sequence per branch.
LockPrograms(op) ==
    CASE op = "Start" -> StartLocks
      [] op \in {"Pause", "Restart", "Stop", "Shutdown", "BeginGetEvent", "EndGetEvent",
                 "QueueEvent", "GetCurrentMediaType", "SetCurrentMediaType"} ->
             { StreamSinkLocked(<< >>) }
      [] op = "GetEvent" ->
             { StreamSinkLocked(<< >>), StreamSinkLocked(<< >>) \o << WaitForEvent >> }
      [] op = "RequestSamples" ->
             { << >>, StreamSinkLocked(<< >>),
               StreamSinkLocked(<< >>) \o StreamSinkLocked(<< >>) }
      [] op \in {"OnClockPause", "OnClockRestart", "OnClockStop",
                 "CustomVideoRenderer::Shutdown"} ->
             { MediaSinkLocked(<< >>), MediaSinkLocked(StreamSinkLocked(<< >>)) }
      [] op = "OnClockStart" ->
             { MediaSinkLocked(<< >>) } \cup { MediaSinkLocked(body) : body \in StartLocks }
      [] op \in {"SetPresentationClock", "GetPresentationClock", "GetCharacteristics",
                 "GetStreamSinkCount", "GetStreamSinkByIndex", "GetStreamSinkById"} ->
             { MediaSinkLocked(<< >>) }
      [] op = "OnClockSetRate" -> { << >> }

\* The methods each thread calls: the presentation clock's notifications, the
\* event pump, the work queue's callback, and the application.
CallerMethods(t) ==
    CASE t = "clock" -> {"OnClockStart", "OnClockPause", "OnClockRestart", "OnClockStop",
                         "OnClockSetRate"}
      [] t = "pump" -> {"GetEvent", "BeginGetEvent", "EndGetEvent"}
      [] t = "tick" -> {"RequestSamples"}
      [] t = "app" -> {"CustomVideoRenderer::Shutdown", "SetCurrentMediaType",
                       "SetPresentationClock", "GetStreamSinkByIndex"}

CritSec(c) == IF c = "m_csMediaSink" THEN m_csMediaSink ELSE m_csStreamSinkAndScheduler

\* EnterCriticalSection returns at once when the critical section is free or
\* owned by the calling thread (a CRITICAL_SECTION is recursive).
CanEnter_NotRecursive(c, t) == CritSec(c).owner = NULL

CanEnter(c, t) == CritSec(c).owner \in {NULL, t}

Entered(c, t) == [owner |-> t, count |-> CritSec(c).count + 1]
Left(c) == IF CritSec(c).count = 1 THEN Unowned
           ELSE [owner |-> CritSec(c).owner, count |-> CritSec(c).count - 1]

\* Thread t enters a method.
Call(t, op) ==
    /\ callers[t] = Outside
    /\ \E program \in LockPrograms(op) :
           callers' = [callers EXCEPT ![t] = [op |-> op, todo |-> program]]
    /\ ret' = Ret("Call", << t, op >>, S_OK, NULL, FALSE)
    /\ UNCHANGED << m_csMediaSink, m_csStreamSinkAndScheduler >>
    /\ UNCHANGED << sink_IsShutdown, m_pStream, m_pClock, clockSinks, playerVars >>
    /\ UNCHANGED << streamVars, queueVars, workVars, threadVars, usedReleased >>

\* CCritSec::Lock
EnterCriticalSection(t) ==
    /\ callers[t].todo # << >>
    /\ Head(callers[t].todo)[1] = "Lock"
    /\ LET c == Head(callers[t].todo)[2] IN
       /\ CanEnter(c, t)
       /\ IF c = "m_csMediaSink"
          THEN /\ m_csMediaSink' = Entered(c, t)
               /\ UNCHANGED m_csStreamSinkAndScheduler
          ELSE /\ m_csStreamSinkAndScheduler' = Entered(c, t)
               /\ UNCHANGED m_csMediaSink
       /\ ret' = Ret("EnterCriticalSection", << t, c >>, S_OK, NULL, FALSE)
    /\ callers' = [callers EXCEPT ![t].todo = Tail(@)]
    /\ UNCHANGED << sink_IsShutdown, m_pStream, m_pClock, clockSinks, playerVars >>
    /\ UNCHANGED << streamVars, queueVars, workVars, threadVars, usedReleased >>

\* CCritSec::Unlock
LeaveCriticalSection(t) ==
    /\ callers[t].todo # << >>
    /\ Head(callers[t].todo)[1] = "Unlock"
    /\ LET c == Head(callers[t].todo)[2] IN
       /\ IF c = "m_csMediaSink"
          THEN /\ m_csMediaSink' = Left(c)
               /\ UNCHANGED m_csStreamSinkAndScheduler
          ELSE /\ m_csStreamSinkAndScheduler' = Left(c)
               /\ UNCHANGED m_csMediaSink
       /\ ret' = Ret("LeaveCriticalSection", << t, c >>, S_OK, NULL, FALSE)
    /\ callers' = [callers EXCEPT ![t].todo = Tail(@)]
    /\ UNCHANGED << sink_IsShutdown, m_pStream, m_pClock, clockSinks, playerVars >>
    /\ UNCHANGED << streamVars, queueVars, workVars, threadVars, usedReleased >>

\* The wait inside pQueue->GetEvent ends (an event arrived or the queue was
\* shut down).
EndWait(t) ==
    /\ callers[t].todo # << >>
    /\ Head(callers[t].todo) = WaitForEvent
    /\ callers' = [callers EXCEPT ![t].todo = Tail(@)]
    /\ ret' = Ret("EndWait", << t, callers[t].op >>, S_OK, NULL, FALSE)
    /\ UNCHANGED << m_csMediaSink, m_csStreamSinkAndScheduler >>
    /\ UNCHANGED << sink_IsShutdown, m_pStream, m_pClock, clockSinks, playerVars >>
    /\ UNCHANGED << streamVars, queueVars, workVars, threadVars, usedReleased >>

\* Thread t leaves the method it was in.
Return(t) ==
    /\ callers[t].op # NULL
    /\ callers[t].todo = << >>
    /\ callers' = [callers EXCEPT ![t] = Outside]
    /\ ret' = Ret("Return", << t, callers[t].op >>, S_OK, NULL, FALSE)
    /\ UNCHANGED << m_csMediaSink, m_csStreamSinkAndScheduler >>
    /\ UNCHANGED << sink_IsShutdown, m_pStream, m_pClock, clockSinks, playerVars >>
    /\ UNCHANGED << streamVars, queueVars, workVars, threadVars, usedReleased >>

(***************************************************************************)
(* The specification.                                                      *)
(***************************************************************************)
\* The stream sink's lifecycle: the threads that drive it, the admission work
\* items and the streaming thread.  Nobody pumps the event queue here: the sink
\* never reads its queue, so the events it queues stay in the order queued.
Next ==
    \/ Pause
    \/ Restart
    \/ Stop
    \/ \E start \in StartTimes : Start(start)
    \/ Shutdown
    \/ CustomVideoRenderer_Shutdown
    \/ \E pMediaType \in LifecycleTypes : SetCurrentMediaType(pMediaType)
    \/ Invoke
    \/ RequestSamples
    \/ \E pSample \in Samples : ProcessSample_Load(pSample)
    \/ ProcessSample

Spec == Init /\ [][Next]_vars

\* The platform's work queue does its part: a work item whose timer has expired
\* is dispatched, and a dispatched RequestSamples runs to its end.
SpecFair == Spec /\ WF_vars(Invoke) /\ WF_vars(RequestSamples)

\* The type handler and the event generator: the calls a client makes on the
\* two interfaces in every stream state, before and after Shutdown.  The
\* work items Start schedules are not run here.
NextInterfaces ==
    \/ Pause
    \/ Restart
    \/ Stop
    \/ \E start \in StartTimes : Start(start)
    \/ Shutdown
    \/ CustomVideoRenderer_Shutdown
    \/ \E pMediaType \in CandidateTypes : IsMediaTypeSupported(pMediaType)
    \/ \E pMediaType \in CandidateTypes : SetCurrentMediaType(pMediaType)
    \/ \E ppMediaType \in OutPointers : GetCurrentMediaType(ppMediaType)
    \/ \E pdwTypeCount \in OutPointers : GetMediaTypeCount(pdwTypeCount)
    \/ \E dwIndex \in TypeIndices, ppType \in OutPointers : GetMediaTypeByIndex(dwIndex, ppType)
    \/ BeginGetEvent
    \/ EndGetEvent
    \/ \E dwFlags \in EventFlags : GetEvent_Lock(dwFlags)
    \/ GetEvent
    \/ \E met \in EventTypes : QueueEvent(met)

SpecInterfaces == Init /\ [][NextInterfaces]_vars

\* Media type negotiation over the whole catalog: every subtype of
\* s_pVideoFormats, the subtypes outside it and a null pointer, proposed in every
\* stream state before and after Shutdown.
AllSubtypes == {s_pVideoFormats[i] : i \in 1..s_dwNumVideoFormats}
NegotiatedTypes == AllSubtypes \cup UnsupportedSubtypes \cup {NULL}

NextNegotiation ==
    \/ \E pMediaType \in NegotiatedTypes : SetCurrentMediaType(pMediaType)
    \/ \E ppMediaType \in OutPointers : GetCurrentMediaType(ppMediaType)
    \/ \E start \in StartTimes : Start(start)
    \/ Pause
    \/ Stop
    \/ Shutdown

SpecNegotiation == Init /\ [][NextNegotiation]_vars

\* The media sink: stream enumeration, the fixed stream set and the
\* presentation clock, before and after either Shutdown.
NextMediaSink ==
    \/ \E id \in StreamIds, pMediaType \in LifecycleTypes, ppStreamSink \in OutPointers :
           AddStreamSink(id, pMediaType, ppStreamSink)
    \/ \E id \in StreamIds : RemoveStreamSink(id)
    \/ \E id \in StreamIds, ppStreamSink \in OutPointers : GetStreamSinkById(id, ppStreamSink)
    \/ \E dwIndex \in StreamIndices, ppStreamSink \in OutPointers :
           GetStreamSinkByIndex(dwIndex, ppStreamSink)
    \/ \E pcStreamSinkCount \in OutPointers : GetStreamSinkCount(pcStreamSinkCount)
    \/ \E pPresentationClock \in Clocks : SetPresentationClock(pPresentationClock)
    \/ \E ppPresentationClock \in OutPointers : GetPresentationClock(ppPresentationClock)
    \/ CustomVideoRenderer_Shutdown
    \/ Shutdown

SpecMediaSink == Init /\ [][NextMediaSink]_vars

\* Construction with the platform's answer to MFCreateEventQueue as an input.
\* The constructor discards that answer, Initialize returns what QueryInterface
\* for IID_IMFStreamSink returns, and CreateInstance what Initialize and its own
\* QueryInterface return: none depends on the queue.
CreateEventQueueResults == {S_OK, E_OUTOFMEMORY}
InitializeHr(hrQueue) == S_OK
CreateInstanceHr(hrQueue) == IF SUCCEEDED(InitializeHr(hrQueue)) THEN S_OK
                             ELSE InitializeHr(hrQueue)

InitCreate ==
    \E hrQueue \in CreateEventQueueResults :
        /\ m_state = State_TypeNotSet
        /\ m_IsShutdown = FALSE
        /\ m_pSink = "sink"
        /\ m_pCurrentType = NULL
        /\ m_pEventQueue = IF SUCCEEDED(hrQueue) THEN "queue" ELSE NULL
        /\ m_imageBytesPP = <<1, 1>>
        /\ m_dxgiFormat = DXGI_FORMAT_UNKNOWN
        /\ m_cOutstandingSampleRequests = DWORD(0)
        /\ m_count = 0
        /\ events = << >>
        /\ eqSubscribed = FALSE
        /\ eqShutdownCalls = 0
        /\ scheduled = 0
        /\ running = EmptyBag
        /\ sampleThread = Idle
        /\ eventThread = Idle
        /\ sink_IsShutdown = FALSE
        /\ m_pStream = IF SUCCEEDED(InitializeHr(hrQueue)) THEN "stream" ELSE NULL
        /\ m_pClock = NULL
        /\ clockSinks = {}
        /\ m_csMediaSink = Unowned
        /\ m_csStreamSinkAndScheduler = Unowned
        /\ callers = [t \in Callers |-> Outside]
        /\ player = NewPlayer
        /\ playerThread = Idle
        /\ session = NoSession
        /\ posted = << >>
        /\ usedReleased = FALSE
        /\ ret = Ret("CreateInstance", hrQueue, CreateInstanceHr(hrQueue),
                     IF SUCCEEDED(CreateInstanceHr(hrQueue)) THEN "sink" ELSE NULL, FALSE)

\* The blocking consumer: a thread calling GetEvent while other threads drive
\* the lifecycle, negotiate the type, queue events and run the admission tick.
NextConsumer ==
    \/ \E dwFlags \in EventFlags : GetEvent_Lock(dwFlags)
    \/ GetEvent
    \/ \E met \in EventTypes : QueueEvent(met)
    \/ \E pMediaType \in LifecycleTypes : SetCurrentMediaType(pMediaType)
    \/ \E start \in StartTimes : Start(start)
    \/ Pause
    \/ Stop
    \/ Invoke
    \/ RequestSamples
    \/ Shutdown

SpecConsumer == Init /\ [][NextConsumer]_vars

\* The consumer's thread runs: once its wait inside pQueue->GetEvent can end
\* (an event is queued, or the queue was shut down), it does end.
SpecConsumerFair == SpecConsumer /\ WF_vars(GetEvent)

\* The same callers on a sink whose construction may have failed to make its
\* event queue.
SpecCreate == InitCreate /\ [][NextConsumer]_vars

\* The presentation clock: binding the sink to clocks whose register and
\* unregister calls may fail, the notifications a clock sends, and the media
\* sink's queries, before and after the media sink's Shutdown.
NextClock ==
    \/ \E pPresentationClock \in Clocks, hrRemove \in ClockResults, hrAdd \in ClockResults :
           SetPresentationClockWith(pPresentationClock, hrRemove, hrAdd)
    \/ \E ppPresentationClock \in OutPointers : GetPresentationClock(ppPresentationClock)
    \/ \E pdwCharacteristics \in OutPointers : GetCharacteristics(pdwCharacteristics)
    \/ \E pcStreamSinkCount \in OutPointers : GetStreamSinkCount(pcStreamSinkCount)
    \/ \E dwIndex \in StreamIndices, ppStreamSink \in OutPointers :
           GetStreamSinkByIndex(dwIndex, ppStreamSink)
    \/ \E llClockStartOffset \in StartTimes : OnClockStart(llClockStartOffset)
    \/ OnClockStop
    \/ OnClockPause
    \/ OnClockRestart
    \/ \E flRate \in Rates : OnClockSetRate(flRate)
    \/ \E pMediaType \in LifecycleTypes : SetCurrentMediaType(pMediaType)
    \/ CustomVideoRenderer_Shutdown

SpecClock == Init /\ [][NextClock]_vars

\* The critical sections: the clock, the event pump, the work queue and the
\* application each inside a method of their own, interleaved at every
\* EnterCriticalSection and LeaveCriticalSection.
NextLocks ==
    \/ \E t \in Callers : \E op \in CallerMethods(t) : Call(t, op)
    \/ \E t \in Callers : EnterCriticalSection(t)
    \/ \E t \in Callers : LeaveCriticalSection(t)
    \/ \E t \in Callers : EndWait(t)
    \/ \E t \in Callers : Return(t)

SpecLocks == Init /\ [][NextLocks]_vars

(***************************************************************************)
(* Properties.  ret' names the call (or statement) a step has just         *)
(* executed, so an action formula over ret'.op speaks about that call: the *)
(* unprimed variables are the state it was made in, the primed ones the    *)
(* state it left.                                                          *)
(***************************************************************************)
LifecycleCalls == {"Start", "Restart", "Pause", "Stop"}

\* The column of ValidStateMatrix a lifecycle call consults.
OperationOf(call) ==
    CASE call = "Start" -> OpStart
      [] call = "Restart" -> OpRestart
      [] call = "Pause" -> OpPause
      [] call = "Stop" -> OpStop

C2_ProcessSampleFollowsMatrix ==
    [][ (ret'.op = "ProcessSample" /\ ~ValidStateMatrix[m_state][OpProcessSample]) =>
            /\ ret'.hr = MF_E_INVALIDREQUEST
            /\ UNCHANGED << m_state, m_cOutstandingSampleRequests >> ]_vars

\* C3: the outstanding-request counter never exceeds
\* SAMPLE_QUEUE_HIWATER_THRESHOLD.
C3_CounterAtMostHiwater ==
    DWordLeq(m_cOutstandingSampleRequests, DWORD(SAMPLE_QUEUE_HIWATER_THRESHOLD))

\* C4: the outstanding-request counter never goes below zero: read as a signed
\* 32-bit number it is never negative, that is, the DWORD never wraps past 0 to
\* 2^32-1.
C4_CounterNeverBelowZero ==
    m_cOutstandingSampleRequests[1] < WORD_MOD \div 2

\* C5: once the stream sink is shut down, Start, Pause, Stop and Restart return
\* MF_E_SHUTDOWN and change neither the state nor the queued events nor the
\* scheduled work items.
C5_LifecycleAfterShutdown ==
    [][ (ret'.op \in LifecycleCalls /\ m_IsShutdown) =>
            /\ ret'.hr = MF_E_SHUTDOWN
            /\ UNCHANGED << m_state, events, scheduled >> ]_vars

InterfaceCalls ==
    {"BeginGetEvent", "EndGetEvent", "GetEvent", "QueueEvent", "SetCurrentMediaType",
     "GetCurrentMediaType", "GetMediaTypeCount", "GetMediaTypeByIndex",
     "IsMediaTypeSupported"}

\* C6: once the stream sink is shut down, every call of the event generator and
\* of the type handler returns MF_E_SHUTDOWN, and no statement dereferences the
\* released event queue or current type.
C6_InterfacesAfterShutdown ==
    [][ (ret'.op \in InterfaceCalls /\ m_IsShutdown) =>
            /\ ret'.hr = MF_E_SHUTDOWN
            /\ ~usedReleased' ]_vars

ShutdownCalls == {"Shutdown", "CustomVideoRenderer::Shutdown"}

\* C7: Shutdown is idempotent.  Every Shutdown, of the stream sink or of the
\* media sink, returns MF_E_SHUTDOWN; one made on a stream sink that is already
\* shut down leaves the stream sink, its event queue and its work items as they
\* were, one made on a media sink that is already shut down leaves the media
\* sink as it was; and the event queue has then been asked to shut down exactly
\* once.
C7_ShutdownIdempotent ==
    [][ ret'.op \in ShutdownCalls =>
            /\ ret'.hr = MF_E_SHUTDOWN
            /\ eqShutdownCalls' = 1
            /\ m_IsShutdown => UNCHANGED << streamVars, queueVars, workVars >>
            /\ sink_IsShutdown => UNCHANGED sinkVars ]_vars

\* C7 witness: the stream sink's Shutdown has returned after the media sink's
\* Shutdown had already shut the stream sink down (a second Shutdown), and the
\* queue was shut down once.
C7_Witness ==
    /\ ret.op = "Shutdown"
    /\ ret.hr = MF_E_SHUTDOWN
    /\ sink_IsShutdown
    /\ m_IsShutdown
    /\ eqShutdownCalls = 1

\* C8: from the moment m_IsShutdown is set no statement of RequestSamples
\* changes the outstanding-request counter or appends an event.
C8_NoRequestAfterShutdown ==
    [][ (ret'.op = "RequestSamples" /\ m_IsShutdown) =>
            UNCHANGED << m_cOutstandingSampleRequests, events >> ]_vars

\* C9: a RequestSamples invocation whose CheckShutdown has just failed does not
\* schedule the next work item when it leaves the loop.
C9_NoRescheduleAfterShutdown ==
    [][ ( /\ ret.op = "RequestSamples" /\ ret.arg = "CheckShutdown" /\ FAILED(ret.hr)
          /\ ret'.op = "RequestSamples" /\ ret'.arg = "QueueRequest" ) =>
            scheduled' = scheduled ]_vars

C11_UnsupportedTypeAsStated ==
    [][ (ret'.op = "SetCurrentMediaType" /\ ret'.arg # NULL /\ ~InCatalog(ret'.arg)) =>
            /\ ret'.hr = MF_E_INVALIDMEDIATYPE
            /\ UNCHANGED << m_state, m_pCurrentType, m_imageBytesPP, m_dxgiFormat >> ]_vars

\* C11 amended: on a stream sink that is not shut down, SetCurrentMediaType with
\* a subtype outside the catalog returns MF_E_INVALIDMEDIATYPE; on any sink it
\* leaves the state, the current type, the bytes-per-pixel ratio and the cached
\* DXGI format unchanged (a shut-down sink answers MF_E_SHUTDOWN).
C11_UnsupportedTypeRejected ==
    [][ (ret'.op = "SetCurrentMediaType" /\ ret'.arg # NULL /\ ~InCatalog(ret'.arg)) =>
            /\ ret'.hr = IF m_IsShutdown THEN MF_E_SHUTDOWN ELSE MF_E_INVALIDMEDIATYPE
            /\ UNCHANGED << m_state, m_pCurrentType, m_imageBytesPP, m_dxgiFormat >> ]_vars

\* C11 witness: ARGB32 (which has a DXGI mapping but is not in the catalog) was
\* just refused on a live, Started stream that holds a negotiated type.
C11_Witness ==
    /\ ret.op = "SetCurrentMediaType"
    /\ ret.arg = "ARGB32"
    /\ ret.hr = MF_E_INVALIDMEDIATYPE
    /\ ~m_IsShutdown
    /\ m_state = State_Started
    /\ m_pCurrentType = "RGB32"
    /\ m_imageBytesPP = <<4, 1>>
    /\ m_dxgiFormat = "DXGI_FORMAT_B8G8R8X8_UNORM"

\* The documented bytes-per-pixel table, by subtype family; <<0, 0>> where the
\* table names no value.
DocumentedBytesPP(subtype) ==
    IF subtype \in {"NV12", "YV12", "IYUV", "YVU9", "I420"} THEN <<3, 2>>
    ELSE IF subtype \in {"YUY2", "RGB555", "RGB565", "UYVY", "YVYU", "V216"} THEN <<2, 1>>
    ELSE IF subtype = "RGB24" THEN <<3, 1>>
    ELSE IF subtype = "RGB32" THEN <<4, 1>>
    ELSE IF subtype = "v410" THEN <<5, 4>>
    ELSE IF subtype \in {"RGB8", "AYUV", "NV11", "420O"} THEN <<1, 1>>
    ELSE <<0, 0>>

\* A step that is a successful SetCurrentMediaType.
SetTypeSucceeded == ret'.op = "SetCurrentMediaType" /\ SUCCEEDED(ret'.hr)

\* C12: round trip.  A GetCurrentMediaType that directly follows a successful
\* SetCurrentMediaType(t) succeeds and returns t, and the stored ratio is the
\* documented one for t; more generally a GetCurrentMediaType on a live sink
\* that holds a type returns that type, and the held type changes only by a
\* successful SetCurrentMediaType (to the type passed, whatever was held before)
\* or by Shutdown (to none).
C12_RoundTrip ==
    [][ /\ ( /\ ret.op = "SetCurrentMediaType" /\ SUCCEEDED(ret.hr)
             /\ ret'.op = "GetCurrentMediaType" /\ ret'.arg # NULL ) =>
                /\ ret'.hr = S_OK
                /\ ret'.out = ret.arg
                /\ m_imageBytesPP = DocumentedBytesPP(ret.arg)
        /\ ( /\ ret'.op = "GetCurrentMediaType" /\ ret'.arg # NULL
             /\ ~m_IsShutdown /\ m_pCurrentType # NULL ) =>
                /\ ret'.hr = S_OK
                /\ ret'.out = m_pCurrentType
                /\ m_imageBytesPP = DocumentedBytesPP(m_pCurrentType)
        /\ SetTypeSucceeded => m_pCurrentType' = ret'.arg
        /\ m_pCurrentType' # m_pCurrentType =>
                \/ SetTypeSucceeded
                \/ (m_IsShutdown' /\ m_pCurrentType' = NULL) ]_vars

\* C12 witness: GetCurrentMediaType has just returned v410, the type last set
\* (after another type had been held: the DXGI format cached for NV12 remains).
C12_Witness ==
    /\ ret.op = "GetCurrentMediaType"
    /\ ret.hr = S_OK
    /\ ret.out = "v410"
    /\ m_pCurrentType = "v410"
    /\ m_imageBytesPP = <<5, 4>>
    /\ m_dxgiFormat = "DXGI_FORMAT_NV12"
    /\ ~m_IsShutdown

\* C13: the ratio a successful SetCurrentMediaType stores is the documented
\* table value of the subtype passed, whatever type and ratio were held before;
\* every subtype the call accepts has a value in the table.
C13_BytesPerPixelTable ==
    [][ SetTypeSucceeded =>
            /\ ret'.arg \in AllSubtypes
            /\ DocumentedBytesPP(ret'.arg) # <<0, 0>>
            /\ m_imageBytesPP' = DocumentedBytesPP(ret'.arg) ]_vars

\* C13 witness: RGB24 was just set on a sink that had negotiated YUY2 before
\* (its DXGI format is still cached): the ratio is 3/1.
C13_Witness ==
    /\ ret.op = "SetCurrentMediaType"
    /\ ret.arg = "RGB24"
    /\ SUCCEEDED(ret.hr)
    /\ m_imageBytesPP = <<3, 1>>
    /\ m_dxgiFormat = "DXGI_FORMAT_YUY2"

\* The positions of the events of one type in the queue.
PositionsOf(met) == {i \in 1..Len(events) : events[i] = met}

C15_ProcessSampleDecrementsByOne ==
    [][ ( /\ ret'.op = "ProcessSample"
          /\ ValidStateMatrix[m_state][OpProcessSample]
          /\ sampleThread.sample = "sample"
          /\ sampleThread.reg # DWORD(0)
          /\ DWordLeq(sampleThread.reg, DWORD(SAMPLE_QUEUE_HIWATER_THRESHOLD)) ) =>
            m_cOutstandingSampleRequests' = DWordDec(m_cOutstandingSampleRequests) ]_vars

\* C16: on a live sink GetCurrentMediaType returns MF_E_NOT_INITIALIZED exactly
\* while no type is held; a type comes to be held only by a SetCurrentMediaType
\* that succeeds (a rejected candidate leaves none held), every successful one
\* leaves a type held, and a held type is never lost before shutdown.
C16_NotInitializedUntilTypeSet ==
    [][ /\ (ret'.op = "GetCurrentMediaType" /\ ret'.arg # NULL /\ ~m_IsShutdown) =>
                (ret'.hr = MF_E_NOT_INITIALIZED <=> m_pCurrentType = NULL)
        /\ (m_pCurrentType = NULL /\ m_pCurrentType' # NULL) => SetTypeSucceeded
        /\ (ret'.op = "SetCurrentMediaType" /\ FAILED(ret'.hr)) =>
                m_pCurrentType' = m_pCurrentType
        /\ SetTypeSucceeded => m_pCurrentType' # NULL
        /\ (m_pCurrentType # NULL /\ ~m_IsShutdown') => m_pCurrentType' # NULL ]_vars

\* C16 witness: GetCurrentMediaType has just returned MF_E_NOT_INITIALIZED on a
\* live sink still in TypeNotSet.
C16_Witness ==
    /\ ret.op = "GetCurrentMediaType"
    /\ ret.hr = MF_E_NOT_INITIALIZED
    /\ ~m_IsShutdown
    /\ m_pCurrentType = NULL
    /\ m_state = State_TypeNotSet

\* C17: on a live media sink GetStreamSinkById with the fixed identifier
\* succeeds and returns the sink's stream; with any other identifier it returns
\* MF_E_INVALIDSTREAMNUMBER.
C17_GetStreamSinkById ==
    [][ (ret'.op = "GetStreamSinkById" /\ ret'.arg[2] # NULL /\ ~sink_IsShutdown) =>
            IF ret'.arg[1] = STREAM_ID
            THEN ret'.hr = S_OK /\ ret'.out = m_pStream /\ ret'.out # NULL
            ELSE ret'.hr = MF_E_INVALIDSTREAMNUMBER ]_vars

\* C18: on a live media sink GetStreamSinkByIndex with index 0 succeeds and
\* returns the sink's one stream, with an index above 0 it returns
\* MF_E_INVALIDINDEX; GetStreamSinkCount reports 1; and the stream
\* GetStreamSinkById stores is that same stream.
C18_GetStreamSinkByIndex ==
    [][ /\ ( /\ ret'.op = "GetStreamSinkByIndex" /\ ret'.arg[2] # NULL
             /\ ~sink_IsShutdown ) =>
                IF ret'.arg[1] = 0
                THEN ret'.hr = S_OK /\ ret'.out = m_pStream /\ ret'.out = "stream"
                ELSE ret'.hr = MF_E_INVALIDINDEX /\ ret'.out = NULL
        /\ (ret'.op = "GetStreamSinkCount" /\ ret'.arg # NULL /\ ~sink_IsShutdown) =>
                ret'.hr = S_OK /\ ret'.out = 1
        /\ (ret'.op = "GetStreamSinkById" /\ ret'.out # NULL) =>
                ret'.out = "stream" ]_vars

\* C18 witness: GetStreamSinkByIndex(0) has just returned the stream of a live
\* media sink.
C18_Witness ==
    /\ ret.op = "GetStreamSinkByIndex"
    /\ ret.arg = << 0, "ptr" >>
    /\ ret.hr = S_OK
    /\ ret.out = "stream"
    /\ ~sink_IsShutdown

\* C19: AddStreamSink and RemoveStreamSink return MF_E_STREAMSINKS_FIXED for
\* every argument, before and after Shutdown, and leave the stream alone; the
\* media sink holds its one stream until its Shutdown, the only call that
\* changes it.
C19_StreamSinksFixed ==
    [][ /\ ret'.op \in {"AddStreamSink", "RemoveStreamSink"} =>
                /\ ret'.hr = MF_E_STREAMSINKS_FIXED
                /\ UNCHANGED << sinkVars, streamVars >>
        /\ m_pStream' # m_pStream => ret'.op = "CustomVideoRenderer::Shutdown"
        /\ ~sink_IsShutdown' => m_pStream' = "stream" ]_vars

\* C19 witness: AddStreamSink for an identifier other than the fixed one was
\* just refused on a live media sink that still holds its stream.
C19_Witness ==
    /\ ret.op = "AddStreamSink"
    /\ ret.arg[1] = 2
    /\ ret.hr = MF_E_STREAMSINKS_FIXED
    /\ ~sink_IsShutdown
    /\ m_pStream = "stream"

\* C20: the media sink is a state sink of exactly the clock it holds: of no
\* clock while it holds none (never bound, bound to null, or shut down), and of
\* that clock alone otherwise.
C20_RegisteredWithHeldClockOnly ==
    clockSinks = IF m_pClock = NULL THEN {} ELSE {m_pClock}

\* C30: a Pause, Stop or Restart that succeeds sets the state to Paused, Stopped
\* or Started respectively and changes nothing else: not the outstanding-request
\* counter, the current type, the bytes-per-pixel ratio or the queued events,
\* and no work item is scheduled, started or removed.
C30_PauseStopRestartFrame ==
    [][ (ret'.op \in {"Pause", "Stop", "Restart"} /\ SUCCEEDED(ret'.hr)) =>
            /\ m_state' = CASE ret'.op = "Pause" -> State_Paused
                            [] ret'.op = "Stop" -> State_Stopped
                            [] ret'.op = "Restart" -> State_Started
            /\ UNCHANGED << m_cOutstandingSampleRequests, m_pCurrentType, m_imageBytesPP,
                            m_dxgiFormat, m_IsShutdown, events, eqShutdownCalls,
                            scheduled, running >> ]_vars

\* C30 witness: Pause has just succeeded on a live stream with requests
\* outstanding, their events still queued and a work item pending.
C30_Witness ==
    /\ ret.op = "Pause"
    /\ SUCCEEDED(ret.hr)
    /\ m_state = State_Paused
    /\ ~m_IsShutdown
    /\ m_cOutstandingSampleRequests = DWORD(3)
    /\ Len(events) = 4
    /\ scheduled = 1

\* The display-surface format the mapping table gives a subtype, "unknown" for
\* a subtype the table does not list.
MappedDxgiFormat(subtype) ==
    IF \E e \in s_DXGIFormatMapping : e[1] = subtype
    THEN (CHOOSE e \in s_DXGIFormatMapping : e[1] = subtype)[2]
    ELSE DXGI_FORMAT_UNKNOWN

\* C27: after every accepted IsMediaTypeSupported and every successful
\* SetCurrentMediaType for a subtype, the cached display-surface format is the
\* mapping table's entry for that subtype, and "unknown" when the table has no
\* entry for it, whatever an earlier negotiation had cached.
C27_CachedFormatFollowsTable ==
    [][ (ret'.op \in {"SetCurrentMediaType", "IsMediaTypeSupported"} /\ SUCCEEDED(ret'.hr)) =>
            m_dxgiFormat' = MappedDxgiFormat(ret'.arg) ]_vars

\* C25: the increment of the outstanding-request counter in the admission tick
\* is atomic with the threshold check before it and with ProcessSample's
\* decrement: a tick that writes the counter, entered with at most 3 requests
\* outstanding, finds it still below the threshold and raises it by exactly one.
C25_CounterUpdatesAtomic ==
    [][ ( /\ ret'.op = "RequestSamples"
          /\ ret'.arg = "store"
          /\ DWordLeq(m_cOutstandingSampleRequests, DWORD(SAMPLE_QUEUE_HIWATER_THRESHOLD)) ) =>
            /\ NeedMoreSamples
            /\ m_cOutstandingSampleRequests' = DWordInc(m_cOutstandingSampleRequests) ]_vars

\* The consumer is blocked inside GetEvent: past its lock scope, waiting
\* without MF_EVENT_FLAG_NO_WAIT on a queue that is empty and not shut down.
ConsumerBlocked ==
    /\ eventThread.pc = "GetEvent"
    /\ eventThread.dwFlags = "0"
    /\ events = << >>
    /\ eqShutdownCalls = 0

\* C23: while a consumer is blocked inside GetEvent on an empty queue, the
\* stream sink lock is free: Start, Pause, Stop, SetCurrentMediaType,
\* QueueEvent, Shutdown and the admission tick's locked step, issued by other
\* threads, can each take their step (Start unless the work-item bound of the
\* model is reached).
C23_BlockedConsumerHoldsNoLock ==
    ConsumerBlocked =>
        /\ ENABLED Pause
        /\ ENABLED Stop
        /\ ENABLED Shutdown
        /\ \A pMediaType \in LifecycleTypes : ENABLED SetCurrentMediaType(pMediaType)
        /\ \A met \in EventTypes : ENABLED QueueEvent(met)
        /\ WorkItems < MaxWorkItems =>
               \A start \in StartTimes : ENABLED Start(start)
        /\ \A t \in BagToSet(running) :
               t.pc = "QueueEvent" => ENABLED RequestSamples_QueueEvent(t)

\* C23 witness: the consumer is blocked on the empty queue of a Started sink
\* while an admission tick stands at its QueueEvent call.
C23_Witness ==
    /\ ConsumerBlocked
    /\ ~m_IsShutdown
    /\ m_state = State_Started
    /\ \E t \in BagToSet(running) : t.pc = "QueueEvent"

\* C24: a consumer inside a GetEvent call holds its own reference to the
\* queue, and once an event is queued or Shutdown has run, the call returns:
\* with the event, or with the shutdown error.
C24_BlockedConsumerReleased ==
    /\ [](eventThread.pc = "GetEvent" => eventThread.pQueue # NULL)
    /\ (eventThread.pc = "GetEvent" /\ (events # << >> \/ eqShutdownCalls > 0))
           ~> ( /\ eventThread.pc = "idle"
                /\ ret.op = "GetEvent"
                /\ \/ ret.hr = S_OK /\ ret.out # NULL
                   \/ ret.hr = MF_E_SHUTDOWN )

\* C24 witness: Shutdown has run while the consumer was waiting without
\* MF_EVENT_FLAG_NO_WAIT; the sink has dropped its reference to the queue.
C24_Witness ==
    /\ eventThread.pc = "GetEvent"
    /\ eventThread.dwFlags = "0"
    /\ eventThread.pQueue # NULL
    /\ m_IsShutdown
    /\ m_pEventQueue = NULL
    /\ eqShutdownCalls > 0
    /\ ret.op = "Shutdown"

\* C26: every sink the factory returns has an event queue: QueueEvent and
\* GetEvent called on a sink that is not shut down find m_pEventQueue non-null
\* and dereference no null queue.
C26_LiveSinkHasEventQueue ==
    [][ (ret'.op \in {"QueueEvent", "GetEvent_lock", "GetEvent"} /\ ~m_IsShutdown) =>
            /\ m_pEventQueue # NULL
            /\ ~usedReleased' ]_vars

\* C21: on a media sink that is not shut down every clock notification calls
\* the stream sink's matching method and returns its result: OnClockPause
\* calls Pause, OnClockStop Stop, OnClockRestart Restart, the rate change
\* reaches the stream sink, and OnClockStart calls Flush and then, only if the
\* flush succeeded, Start.
C21_ClockNotificationsForwarded ==
    [][ ~sink_IsShutdown =>
          /\ ret'.op = "OnClockPause" =>
                 /\ ret'.out = << "Pause" >>
                 /\ ret'.hr = ValidateOperation(m_state, OpPause)
          /\ ret'.op = "OnClockStop" =>
                 /\ ret'.out = << "Stop" >>
                 /\ ret'.hr = ValidateOperation(m_state, OpStop)
          /\ ret'.op = "OnClockRestart" =>
                 /\ ret'.out = << "Restart" >>
                 /\ ret'.hr = ValidateOperation(m_state, OpRestart)
          /\ ret'.op = "OnClockSetRate" => ret'.out # << >>
          /\ ret'.op = "OnClockStart" =>
                 /\ ret'.out = IF SUCCEEDED(Flush) THEN << "Flush", "Start" >>
                               ELSE << "Flush" >>
                 /\ SUCCEEDED(Flush) =>
                        ret'.hr = IF FAILED(ValidateOperation(m_state, OpStart))
                                  THEN ValidateOperation(m_state, OpStart)
                                  ELSE QueueRequestHr ]_vars

\* The media sink methods C22 names, and whether a call passed a usable
\* out-pointer.
MediaSinkCalls ==
    { "GetCharacteristics", "GetStreamSinkCount", "GetStreamSinkByIndex",
      "GetPresentationClock", "SetPresentationClock", "OnClockStart", "OnClockPause",
      "OnClockRestart", "OnClockStop" }

OutPointerGiven(call) ==
    CASE call.op = "GetStreamSinkByIndex" -> call.arg[2] # NULL
      [] call.op \in {"GetCharacteristics", "GetStreamSinkCount", "GetPresentationClock"} ->
             call.arg # NULL
      [] OTHER -> TRUE

\* C22: the media sink's Shutdown shuts the stream sink down, drops the clock
\* reference and returns the shutdown status; after it GetCharacteristics,
\* GetStreamSinkCount, GetStreamSinkByIndex, GetPresentationClock,
\* SetPresentationClock and the four clock notifications, called with a
\* non-null out-pointer, all return the shutdown error and none dereferences
\* the released stream sink.
C22_MediaSinkAfterShutdown ==
    [][ /\ ret'.op = "CustomVideoRenderer::Shutdown" =>
               /\ sink_IsShutdown'
               /\ m_IsShutdown'
               /\ m_pClock' = NULL
               /\ ret'.hr = MF_E_SHUTDOWN
        /\ (ret'.op \in MediaSinkCalls /\ sink_IsShutdown /\ OutPointerGiven(ret')) =>
               /\ ret'.hr = MF_E_SHUTDOWN
               /\ usedReleased' = usedReleased ]_vars

\* C28: a SetPresentationClock that fails, because the old clock's
\* RemoveClockStateSink or the new clock's AddClockStateSink failed, leaves the
\* binding exactly as it was: the sink holds the clock it held and is on the
\* state sinks of the clocks it was on.
C28_SetPresentationClockAtomic ==
    [][ (ret'.op = "SetPresentationClock" /\ FAILED(ret'.hr)) =>
            UNCHANGED << m_pClock, clockSinks >> ]_vars

\* C29: on a sink that is not shut down every tick schedules the next one, so
\* whenever a tick is pending or running and fewer than 3 requests are
\* outstanding, a later tick raises the counter back to 3 (unless the sink is
\* shut down first), whether or not anybody reads the event queue.
C29_TickRefillsToHiwater ==
    ( /\ ~m_IsShutdown
      /\ WorkItems > 0
      /\ DWordLess(m_cOutstandingSampleRequests, DWORD(SAMPLE_QUEUE_HIWATER_THRESHOLD)) )
        ~> ( \/ m_cOutstandingSampleRequests = DWORD(SAMPLE_QUEUE_HIWATER_THRESHOLD)
             \/ m_IsShutdown )

\* C31: while the stream state is Paused, ProcessSample of a well-formed
\* sample succeeds and leaves the state Paused, but does not process the
\* sample: it extracts no buffer from it.
C31_PausedSampleNotProcessed ==
    [][ ( /\ ret'.op = "ProcessSample"
          /\ m_state = State_Paused
          /\ sampleThread.sample = "sample" ) =>
            /\ ret'.hr = S_OK
            /\ m_state' = State_Paused
            /\ ret'.out = NULL ]_vars

\* C32: whenever the state of a live sink is Ready a media type is held and
\* Start has never succeeded on it.  (Nobody reads the event queue in this
\* specification, so on a live sink a MEStreamSinkStarted in the queue is the
\* record of a Start that succeeded.)
C32_ReadyOnlyBeforeStart ==
    (m_state = State_Ready /\ ~m_IsShutdown) =>
        /\ m_pCurrentType # NULL
        /\ PositionsOf("MEStreamSinkStarted") = {}

\* C37: at most one admission tick is pending or running for the stream sink
\* at any time.
C37_AtMostOneTickPending == WorkItems <= 1

\* C38: a tick raises the outstanding-request counter and queues a
\* request-sample event only while the stream state is Started.
C38_RequestsOnlyWhileStarted ==
    [][ ( /\ ret'.op = "RequestSamples"
          /\ ret'.arg \in {"store", "QueueEvent"}
          /\ ~m_IsShutdown ) =>
            m_state = State_Started ]_vars

\* C40: on a live sink the state is TypeNotSet exactly while no media type is
\* held; the state leaves TypeNotSet only by a SetCurrentMediaType that
\* succeeds, and every such call leaves it; it never returns to TypeNotSet;
\* and in TypeNotSet Start, Restart, Pause and Stop are rejected with the
\* invalid-request error and change nothing.
C40_TypeNotSetIffNoType ==
    /\ [](~m_IsShutdown => (m_state = State_TypeNotSet <=> m_pCurrentType = NULL))
    /\ [][ /\ m_state # State_TypeNotSet => m_state' # State_TypeNotSet
           /\ (m_state = State_TypeNotSet /\ m_state' # State_TypeNotSet) =>
                  (ret'.op = "SetCurrentMediaType" /\ SUCCEEDED(ret'.hr))
           /\ ( /\ m_state = State_TypeNotSet
                /\ ret'.op = "SetCurrentMediaType"
                /\ SUCCEEDED(ret'.hr) ) =>
                  (m_state' # State_TypeNotSet /\ m_pCurrentType' = ret'.arg)
           /\ (m_state = State_TypeNotSet /\ ret'.op \in LifecycleCalls) =>
                  /\ ret'.hr = MF_E_INVALIDREQUEST
                  /\ UNCHANGED << streamVars, queueVars, workVars >> ]_vars

\* C40 witness: the first SetCurrentMediaType has just succeeded on a live sink
\* that has never been started: the state has left TypeNotSet and a type is held.
C40_Witness ==
    /\ ret.op = "SetCurrentMediaType"
    /\ SUCCEEDED(ret.hr)
    /\ ~m_IsShutdown
    /\ m_state = State_Ready
    /\ m_pCurrentType = ret.arg
    /\ events = << >>
    /\ WorkItems = 0

\* Thread t stands at an EnterCriticalSection of a critical section another
\* thread u owns.
WaitsFor(t, u) ==
    /\ t # u
    /\ callers[t].todo # << >>
    /\ Head(callers[t].todo)[1] = "Lock"
    /\ CritSec(Head(callers[t].todo)[2]).owner = u

\* Thread t can take its next step.
CanStep(t) ==
    \/ ENABLED EnterCriticalSection(t)
    \/ ENABLED LeaveCriticalSection(t)
    \/ ENABLED EndWait(t)
    \/ ENABLED Return(t)

\* Thread t can step, or waits for a thread that can, or waits for a thread
\* that waits for one that can (with two critical sections no chain is longer).
Unblockable(t) ==
    \/ CanStep(t)
    \/ \E u \in Callers :
           /\ WaitsFor(t, u)
           /\ \/ CanStep(u)
              \/ \E v \in Callers \ {t} : WaitsFor(u, v) /\ CanStep(v)

\* C39: clock notifications, event-pump calls, admission ticks and Shutdown
\* never deadlock: no thread that owns the stream sink's critical section asks
\* for the media sink's, a thread inside a method is stopped only by a critical
\* section another thread owns (never by one it owns itself), and the chain
\* of owners it waits for ends in a thread that can take its next step.
C39_NoDeadlock ==
    \A t \in Callers :
        /\ ( /\ m_csStreamSinkAndScheduler.owner = t
             /\ callers[t].todo # << >> ) =>
               Head(callers[t].todo) # LockMediaSink
        /\ callers[t].op # NULL => Unblockable(t)

\* C39 witness: OnClockStart stands inside Start with the media sink's
\* critical section owned once and the stream sink's about to be entered
\* again by QueueEvent, while the pump waits for the stream sink's, the
\* application's Shutdown waits for the media sink's and a tick has queued an
\* event.
C39_Witness ==
    /\ callers["clock"].op = "OnClockStart"
    /\ m_csMediaSink = [owner |-> "clock", count |-> 1]
    /\ m_csStreamSinkAndScheduler = [owner |-> "clock", count |-> 1]
    /\ Head(callers["clock"].todo) = LockStreamSink
    /\ WaitsFor("pump", "clock")
    /\ callers["app"].op = "CustomVideoRenderer::Shutdown"
    /\ WaitsFor("app", "clock")
    /\ callers["tick"].op = "RequestSamples"


(***************************************************************************)
(* CPlayer (customplayer.cpp): the player that owns the media session.     *)
(* The application thread calls OpenURL, Play, Pause, Stop, HandleEvent    *)
(* and Shutdown one at a time; the session calls Invoke on a work-queue    *)
(* thread.  The media session is the platform's: each of its methods       *)
(* returns a result chosen here, and a method that succeeded queues the    *)
(* event that reports its completion, with the status the session gives it.*)
(***************************************************************************)
E_UNEXPECTED == "E_UNEXPECTED"

MESessionClosed == "MESessionClosed"
MESessionStarted == "MESessionStarted"
MESessionPaused == "MESessionPaused"
MESessionStopped == "MESessionStopped"
MESessionTopologyStatus == "MESessionTopologyStatus"
MEEndOfPresentation == "MEEndOfPresentation"
MENewPresentation == "MENewPresentation"

MF_TOPOSTATUS_READY == "MF_TOPOSTATUS_READY"
MF_TOPOSTATUS_STARTED_SOURCE == "MF_TOPOSTATUS_STARTED_SOURCE"

\* Session events in flight (queued in the session or posted to the window)
\* that the model follows at a time; MESessionClosed is always admitted.
MaxSessionEvents == 2

SessionResults == {S_OK, E_FAIL}

\* An IMFMediaEvent: its type, the status of the operation it reports
\* (GetStatus) and, for MESessionTopologyStatus, MF_EVENT_TOPOLOGY_STATUS.
MediaEvent(type, hrStatus, status) ==
    [type |-> type, hrStatus |-> hrStatus, status |-> status]

\* The events by which the session reports a completed method.
Completion(type) ==
    IF type = MESessionTopologyStatus
    THEN { MediaEvent(type, hrStatus, status) :
               hrStatus \in SessionResults,
               status \in {MF_TOPOSTATUS_READY, MF_TOPOSTATUS_STARTED_SOURCE} }
    ELSE { MediaEvent(type, hrStatus, NULL) : hrStatus \in SessionResults }

\* Room for one more event once k of the events in flight are consumed.
Room(k) == Len(session.events) + Len(posted) - k < MaxSessionEvents

\* The session after one of its asynchronous methods returned hr: a method
\* that succeeded queues its completion event.
SessionAfter(s, hr, pEvent) ==
    IF SUCCEEDED(hr) THEN [s EXCEPT !.events = Append(@, pEvent)] ELSE s

\* The conditions under which Pause, Stop and Play go on to the session.
PauseAllowed_Always(state) == TRUE

PauseAllowed(state) == state = Started

StopAllowed(state) == state = Started \/ state = Paused

PlayAllowed(state) == state = Paused \/ state = Stopped

\* CPlayer::Pause
CPlayer_Pause(hr) ==
    /\ playerThread = Idle
    /\ UNCHANGED << playerThread, posted >>
    /\ IF ~PauseAllowed(player.m_state)
       THEN /\ ret' = Ret("CPlayer_Pause", player.m_state, MF_E_INVALIDREQUEST, << >>, FALSE)
            /\ UNCHANGED << player, session >>
       ELSE IF player.m_pSession = NULL \/ player.m_pSource = NULL
       THEN /\ ret' = Ret("CPlayer_Pause", player.m_state, E_UNEXPECTED, << >>, FALSE)
            /\ UNCHANGED << player, session >>
       ELSE /\ SUCCEEDED(hr) => Room(0)
            /\ \E pEvent \in Completion(MESessionPaused) :
                   session' = SessionAfter(session, hr, pEvent)
            /\ player' = IF SUCCEEDED(hr) THEN [player EXCEPT !.m_state = Paused]
                         ELSE player
            /\ ret' = Ret("CPlayer_Pause", player.m_state, hr, << "Pause" >>, FALSE)
    /\ UNCHANGED << streamVars, queueVars, workVars, threadVars, usedReleased >>
    /\ UNCHANGED << sink_IsShutdown, m_pStream, m_pClock, clockSinks, lockVars >>

\* CPlayer::Stop
CPlayer_Stop(hr) ==
    /\ playerThread = Idle
    /\ UNCHANGED << playerThread, posted >>
    /\ IF ~StopAllowed(player.m_state)
       THEN /\ ret' = Ret("CPlayer_Stop", player.m_state, MF_E_INVALIDREQUEST, << >>, FALSE)
            /\ UNCHANGED << player, session >>
       ELSE IF player.m_pSession = NULL
       THEN /\ ret' = Ret("CPlayer_Stop", player.m_state, E_UNEXPECTED, << >>, FALSE)
            /\ UNCHANGED << player, session >>
       ELSE /\ SUCCEEDED(hr) => Room(0)
            /\ \E pEvent \in Completion(MESessionStopped) :
                   session' = SessionAfter(session, hr, pEvent)
            /\ player' = IF SUCCEEDED(hr) THEN [player EXCEPT !.m_state = Stopped]
                         ELSE player
            /\ ret' = Ret("CPlayer_Stop", player.m_state, hr, << "Stop" >>, FALSE)
    /\ UNCHANGED << streamVars, queueVars, workVars, threadVars, usedReleased >>
    /\ UNCHANGED << sink_IsShutdown, m_pStream, m_pClock, clockSinks, lockVars >>

\* CPlayer::StartPlayback, called by method op (of argument arg) with k events
\* consumed: the
\* assertion, m_pSession->Start and the optimistic m_state = Started.  With
\* no session the assertion fails, or the call goes through a null pointer:
\* the application ends either way.
StartPlayback(op, arg, k, hr) ==
    IF player.m_pSession = NULL
    THEN /\ playerThread' = [pc |-> "abort"]
         /\ ret' = Ret(op, arg, E_POINTER, << "assert" >>, FALSE)
         /\ UNCHANGED << player, session >>
    ELSE /\ SUCCEEDED(hr) => Room(k)
         /\ \E pEvent \in Completion(MESessionStarted) :
                session' = SessionAfter(session, hr, pEvent)
         /\ player' = IF SUCCEEDED(hr) THEN [player EXCEPT !.m_state = Started]
                      ELSE player
         /\ playerThread' = Idle
         /\ ret' = Ret(op, arg, hr, << "Start" >>, FALSE)

\* CPlayer::Play
Play(hr) ==
    /\ playerThread = Idle
    /\ UNCHANGED posted
    /\ IF ~PlayAllowed(player.m_state)
       THEN /\ ret' = Ret("Play", player.m_state, MF_E_INVALIDREQUEST, << >>, FALSE)
            /\ UNCHANGED << player, session, playerThread >>
       ELSE IF player.m_pSession = NULL \/ player.m_pSource = NULL
       THEN /\ ret' = Ret("Play", player.m_state, E_UNEXPECTED, << >>, FALSE)
            /\ UNCHANGED << player, session, playerThread >>
       ELSE StartPlayback("Play", player.m_state, 0, hr)
    /\ UNCHANGED << streamVars, queueVars, workVars, threadVars, usedReleased >>
    /\ UNCHANGED << sink_IsShutdown, m_pStream, m_pClock, clockSinks, lockVars >>


\* CPlayer::CloseSession up to the call of m_pSession->Close.
CloseSession_Closing(p) == [p EXCEPT !.m_state = Closing]

\* CPlayer::CloseSession from the end of the wait to its return: the close
\* event, if it was signalled, is reset by the wait that consumed it; the
\* session reference is released and the state is Closed.
CloseSession_Return_KeepsState(p) ==
    [p EXCEPT !.m_hCloseEvent = FALSE, !.m_pSession = NULL]

CloseSession_Return(p) ==
    [p EXCEPT !.m_hCloseEvent = FALSE, !.m_pSession = NULL, !.m_state = Closed]

\* What a method that called CloseSession reports of it: how the wait for the
\* close event went (NULL without a wait), the result, and the state and
\* session reference CloseSession returned with.
Closure(p, hr, wait) ==
    [wait |-> wait, hr |-> hr, m_state |-> p.m_state, m_pSession |-> p.m_pSession]

\* The calls of OpenURL after CloseSession that can fail, one at most in a
\* call.  "SetTopology" stands for CreatePresentationDescriptor,
\* CreatePlaybackTopology and SetTopology, which fail alike.
OpenFailures ==
    {NULL, "MFCreateMediaSession", "BeginGetEvent", "CreateMediaSource", "SetTopology"}

\* CPlayer::CreateSession once CloseSession returned hrClose with the player
\* as p: the player, the session, the result and the value of every
\* assertion evaluated.
CreateSession(p, hrClose, fail) ==
    IF FAILED(hrClose)
    THEN [player |-> p, session |-> NoSession, hr |-> hrClose, asserted |-> << >>]
    ELSE IF fail = "MFCreateMediaSession"
    THEN [player |-> p, session |-> NoSession, hr |-> E_FAIL,
          asserted |-> << p.m_state = Closed >>]
    ELSE IF fail = "BeginGetEvent"
    THEN [player |-> [p EXCEPT !.m_pSession = "session"], session |-> NoSession,
          hr |-> E_FAIL, asserted |-> << p.m_state = Closed >>]
    ELSE [player |-> [p EXCEPT !.m_pSession = "session", !.m_state = Ready],
          session |-> [events |-> << >>, requests |-> 1],
          hr |-> S_OK, asserted |-> << p.m_state = Closed >>]

\* CPlayer::OpenURL from the return of CloseSession on: the rest of
\* CreateSession, the media source, the topology.
OpenURL_Created(p, hrClose, fail, wait) ==
    LET created == CreateSession(p, hrClose, fail)
        out == [closure |-> Closure(p, hrClose, wait), asserted |-> created.asserted]
    IN
    /\ fail = NULL /\ SUCCEEDED(hrClose) => Len(posted) < MaxSessionEvents
    /\ playerThread' = Idle
    /\ UNCHANGED posted
    /\ IF FAILED(created.hr)
       THEN /\ player' = created.player
            /\ session' = created.session
            /\ ret' = Ret("OpenURL", fail, created.hr, out, FALSE)
       ELSE IF fail = "CreateMediaSource"
       THEN /\ player' = [created.player EXCEPT !.m_pSource = NULL]
            /\ session' = created.session
            /\ ret' = Ret("OpenURL", fail, E_FAIL, out, FALSE)
       ELSE IF fail = "SetTopology"
       THEN /\ player' = [created.player EXCEPT !.m_pSource = "source"]
            /\ session' = created.session
            /\ ret' = Ret("OpenURL", fail, E_FAIL, out, FALSE)
       ELSE /\ player' = [created.player EXCEPT !.m_pSource = "source",
                                                !.m_state = OpenPending]
            /\ \E pEvent \in Completion(MESessionTopologyStatus) :
                   session' = SessionAfter(created.session, S_OK, pEvent)
            /\ ret' = Ret("OpenURL", fail, S_OK, out, FALSE)

\* CPlayer::Shutdown from the return of CloseSession on: MFShutdown and
\* CloseHandle.  Nothing is called on the player afterwards.
CPlayer_Shutdown_Closed(p, hrClose, wait) ==
    /\ player' = p
    /\ session' = NoSession
    /\ playerThread' = [pc |-> "done"]
    /\ ret' = Ret("CPlayer_Shutdown", NULL, S_OK,
                  [closure |-> Closure(p, hrClose, wait), asserted |-> << >>], FALSE)
    /\ UNCHANGED posted

\* The method that called CloseSession goes on.
AfterCloseSession(caller, p, hrClose, fail, wait) ==
    IF caller = "OpenURL" THEN OpenURL_Created(p, hrClose, fail, wait)
    ELSE CPlayer_Shutdown_Closed(p, hrClose, wait)

\* CPlayer::CloseSession, called by OpenURL (through CreateSession) or by
\* Shutdown with the player as p.  With a session whose Close succeeds the
\* session queues MESessionClosed behind the events it still has and the
\* thread waits for the close event; otherwise CloseSession returns at once
\* and its caller goes on.
CloseSession(caller, p, hrClose, fail) ==
    IF p.m_pSession # NULL /\ SUCCEEDED(hrClose)
    THEN /\ player' = CloseSession_Closing(p)
         /\ session' = SessionAfter(session, hrClose,
                                    MediaEvent(MESessionClosed, S_OK, NULL))
         /\ playerThread' = [pc |-> "CloseSession", caller |-> caller]
         /\ ret' = Ret("CloseSession", caller, hrClose, << "Close" >>, FALSE)
         /\ UNCHANGED posted
    ELSE IF p.m_pSession # NULL
    THEN AfterCloseSession(caller, CloseSession_Return(CloseSession_Closing(p)),
                           hrClose, fail, NULL)
    ELSE AfterCloseSession(caller, CloseSession_Return(p), S_OK, fail, NULL)

\* CPlayer::OpenURL
OpenURL(hrClose, fail) ==
    /\ playerThread = Idle
    /\ CloseSession("OpenURL", [player EXCEPT !.m_state = Closed], hrClose, fail)
    /\ UNCHANGED << streamVars, queueVars, workVars, threadVars, usedReleased >>
    /\ UNCHANGED << sink_IsShutdown, m_pStream, m_pClock, clockSinks, lockVars >>

\* CPlayer::Shutdown
CPlayer_Shutdown(hrClose) ==
    /\ playerThread = Idle
    /\ CloseSession("Shutdown", player, hrClose, NULL)
    /\ UNCHANGED << streamVars, queueVars, workVars, threadVars, usedReleased >>
    /\ UNCHANGED << sink_IsShutdown, m_pStream, m_pClock, clockSinks, lockVars >>

\* WaitForSingleObject(m_hCloseEvent, 5000) in CloseSession returns: the
\* event was signalled, or five seconds passed without it (the build without
\* assertions goes on past assert(FALSE)).  The source and the session are
\* shut down, which drops the session's events and event requests, and the
\* caller goes on.
CloseSession_Wait(timeout, fail) ==
    /\ playerThread.pc = "CloseSession"
    /\ timeout = ~player.m_hCloseEvent
    /\ playerThread.caller = "Shutdown" => fail = NULL
    /\ AfterCloseSession(playerThread.caller, CloseSession_Return(player), S_OK, fail,
                         IF timeout THEN "WAIT_TIMEOUT" ELSE "WAIT_OBJECT_0")
    /\ UNCHANGED << streamVars, queueVars, workVars, threadVars, usedReleased >>
    /\ UNCHANGED << sink_IsShutdown, m_pStream, m_pClock, clockSinks, lockVars >>


\* The calls of Invoke that can fail, one at most in a call.
InvokeFailures == {NULL, "EndGetEvent", "GetType", "BeginGetEvent"}

\* CPlayer::Invoke, the callback of BeginGetEvent, on the work-queue thread:
\* it takes the oldest event of the session, signals the close event for
\* MESessionClosed and asks for the next event otherwise, and posts the event
\* to the application window unless the player is closing.
CPlayer_Invoke(fail) ==
    /\ playerThread.pc # "abort"
    /\ session.requests > 0
    /\ session.events # << >>
    /\ LET pEvent == Head(session.events)
           meType == pEvent.type
           taken == [events |-> Tail(session.events),
                     requests |-> session.requests - 1]
       IN
       IF fail = "EndGetEvent" \/ fail = "GetType"
       THEN /\ session' = taken
            /\ ret' = Ret("CPlayer_Invoke", pEvent, E_FAIL, << >>, FALSE)
            /\ UNCHANGED << player, posted >>
       ELSE IF meType # MESessionClosed /\ fail = "BeginGetEvent"
       THEN /\ session' = taken
            /\ ret' = Ret("CPlayer_Invoke", pEvent, E_FAIL, << "BeginGetEvent" >>, FALSE)
            /\ UNCHANGED << player, posted >>
       ELSE /\ session' = IF meType = MESessionClosed THEN taken
                          ELSE [taken EXCEPT !.requests = @ + 1]
            /\ player' = IF meType = MESessionClosed
                         THEN [player EXCEPT !.m_hCloseEvent = TRUE]
                         ELSE player
            /\ posted' = IF player.m_state # Closing THEN Append(posted, pEvent)
                         ELSE posted
            /\ ret' = Ret("CPlayer_Invoke", pEvent, S_OK,
                          IF meType = MESessionClosed THEN << "SetEvent" >>
                          ELSE << "BeginGetEvent" >>, FALSE)
    /\ UNCHANGED playerThread
    /\ UNCHANGED << streamVars, queueVars, workVars, threadVars, usedReleased >>
    /\ UNCHANGED << sink_IsShutdown, m_pStream, m_pClock, clockSinks, lockVars >>

\* CPlayer::OnNewPresentation: hr is the result of GetPresentationDescriptor,
\* CreatePlaybackTopology and SetTopology, which fail alike.  With no session
\* SetTopology is called through a null pointer and the application ends.
OnNewPresentation(pEvent, hr) ==
    IF FAILED(hr)
    THEN /\ ret' = Ret("HandleEvent", pEvent, hr, << "OnNewPresentation" >>, FALSE)
         /\ playerThread' = Idle
         /\ UNCHANGED << player, session >>
    ELSE IF player.m_pSession = NULL
    THEN /\ ret' = Ret("HandleEvent", pEvent, E_POINTER, << "OnNewPresentation" >>, FALSE)
         /\ playerThread' = [pc |-> "abort"]
         /\ UNCHANGED << player, session >>
    ELSE /\ Room(1)
         /\ \E topology \in Completion(MESessionTopologyStatus) :
                session' = SessionAfter(session, hr, topology)
         /\ player' = [player EXCEPT !.m_state = OpenPending]
         /\ playerThread' = Idle
         /\ ret' = Ret("HandleEvent", pEvent, S_OK, << "OnNewPresentation" >>, FALSE)

\* CPlayer::HandleEvent, called by the application for the oldest
\* WM_APP_PLAYER_EVENT message; hr is the result of the session call the
\* handler of the event makes.  An event whose status is a failure is
\* returned before the switch.  OnTopologyStatus starts playback when the
\* topology is ready, OnPresentationEnded sets Stopped; the events of the
\* default branch go to OnSessionEvent, which changes nothing of the player.
HandleEvent(hr) ==
    /\ playerThread = Idle
    /\ posted # << >>
    /\ posted' = Tail(posted)
    /\ LET pEvent == Head(posted)
           meType == pEvent.type
       IN
       IF FAILED(pEvent.hrStatus)
       THEN /\ ret' = Ret("HandleEvent", pEvent, pEvent.hrStatus, << >>, FALSE)
            /\ UNCHANGED << player, session, playerThread >>
       ELSE IF meType = MESessionTopologyStatus
       THEN IF pEvent.status = MF_TOPOSTATUS_READY
            THEN StartPlayback("HandleEvent", pEvent, 1, hr)
            ELSE /\ ret' = Ret("HandleEvent", pEvent, S_OK, << "OnTopologyStatus" >>, FALSE)
                 /\ UNCHANGED << player, session, playerThread >>
       ELSE IF meType = MEEndOfPresentation
       THEN /\ player' = [player EXCEPT !.m_state = Stopped]
            /\ ret' = Ret("HandleEvent", pEvent, S_OK, << "OnPresentationEnded" >>, FALSE)
            /\ UNCHANGED << session, playerThread >>
       ELSE IF meType = MENewPresentation
       THEN OnNewPresentation(pEvent, hr)
       ELSE /\ ret' = Ret("HandleEvent", pEvent, S_OK, << "OnSessionEvent" >>, FALSE)
            /\ UNCHANGED << player, session, playerThread >>
    /\ UNCHANGED << streamVars, queueVars, workVars, threadVars, usedReleased >>
    /\ UNCHANGED << sink_IsShutdown, m_pStream, m_pClock, clockSinks, lockVars >>

\* The media source reaches the end of the presentation or has a new one:
\* the session, which has a topology, queues the event.
SourceEvent(meType) ==
    /\ player.m_pSession # NULL
    /\ player.m_state \in {OpenPending, Started, Paused}
    /\ Room(0)
    /\ session' = SessionAfter(session, S_OK, MediaEvent(meType, S_OK, NULL))
    /\ ret' = Ret("SourceEvent", meType, S_OK, NULL, FALSE)
    /\ UNCHANGED << player, playerThread, posted >>
    /\ UNCHANGED << streamVars, queueVars, workVars, threadVars, usedReleased >>
    /\ UNCHANGED << sink_IsShutdown, m_pStream, m_pClock, clockSinks, lockVars >>

NextPlayer ==
    \/ \E hrClose \in SessionResults, fail \in OpenFailures : OpenURL(hrClose, fail)
    \/ \E timeout \in BOOLEAN, fail \in OpenFailures : CloseSession_Wait(timeout, fail)
    \/ \E hr \in SessionResults : Play(hr)
    \/ \E hr \in SessionResults : CPlayer_Pause(hr)
    \/ \E hr \in SessionResults : CPlayer_Stop(hr)
    \/ \E fail \in InvokeFailures : CPlayer_Invoke(fail)
    \/ \E hr \in SessionResults : HandleEvent(hr)
    \/ \E meType \in {MEEndOfPresentation, MENewPresentation} : SourceEvent(meType)
    \/ \E hrClose \in SessionResults : CPlayer_Shutdown(hrClose)

SpecPlayer == Init /\ [][NextPlayer]_vars



\* C33: Pause, Stop and Play are gated by the player state.  Pause calls the
\* session only in state Started, Stop only in Started or Paused, Play only
\* in Paused or Stopped; in any other state the call returns
\* MF_E_INVALIDREQUEST and makes no session call; and the call changes the
\* player state only when its session call succeeded, to Paused, Stopped and
\* Started respectively.
C33_PlayerOperationsGated ==
    [][ /\ ret'.op = "CPlayer_Pause" =>
            /\ ret'.out # << >> => player.m_state = Started
            /\ player.m_state # Started =>
                   ret'.hr = MF_E_INVALIDREQUEST /\ ret'.out = << >>
            /\ player'.m_state # player.m_state =>
                   /\ ret'.out = << "Pause" >> /\ SUCCEEDED(ret'.hr)
                   /\ player'.m_state = Paused
        /\ ret'.op = "CPlayer_Stop" =>
            /\ ret'.out # << >> => player.m_state \in {Started, Paused}
            /\ player.m_state \notin {Started, Paused} =>
                   ret'.hr = MF_E_INVALIDREQUEST /\ ret'.out = << >>
            /\ player'.m_state # player.m_state =>
                   /\ ret'.out = << "Stop" >> /\ SUCCEEDED(ret'.hr)
                   /\ player'.m_state = Stopped
        /\ ret'.op = "Play" =>
            /\ ret'.out # << >> => player.m_state \in {Paused, Stopped}
            /\ player.m_state \notin {Paused, Stopped} =>
                   ret'.hr = MF_E_INVALIDREQUEST /\ ret'.out = << >>
            /\ player'.m_state # player.m_state =>
                   /\ ret'.out = << "Start" >> /\ SUCCEEDED(ret'.hr)
                   /\ player'.m_state = Started
      ]_vars

\* A Pause in state Started that the session accepted.
C33_Witness ==
    /\ ret.op = "CPlayer_Pause"
    /\ ret.arg = Started
    /\ ret.out = << "Pause" >>
    /\ SUCCEEDED(ret.hr)
    /\ player.m_state = Paused


\* C35: whenever CloseSession returns, with success or failure and with the
\* close event signalled or the wait timed out, the player state is Closed
\* and the session reference is released; so the assertion of CreateSession,
\* m_state == Closed, holds every time it is evaluated, and every new session
\* is created from state Closed.
C35_CreateSessionAssertionHolds ==
    ret.op \in {"OpenURL", "CPlayer_Shutdown"} =>
        /\ ret.out.closure.m_state = Closed
        /\ ret.out.closure.m_pSession = NULL
        /\ \A i \in DOMAIN ret.out.asserted : ret.out.asserted[i]
        /\ player.m_pSession # NULL => ret.out.asserted = << TRUE >>

\* An OpenURL whose CloseSession timed out waiting for the close event, and
\* which went on to create a new session.
C35_Witness ==
    /\ ret.op = "OpenURL"
    /\ ret.out.closure.wait = "WAIT_TIMEOUT"
    /\ ret.out.asserted = << TRUE >>
    /\ player.m_pSession # NULL


\* C34: the event pump of the player.  For a session event other than
\* MESessionClosed, Invoke issues one new BeginGetEvent, so that the one
\* event request it consumed is outstanding again; for MESessionClosed it
\* signals the close event and issues no BeginGetEvent; and it posts the
\* event to the application window if and only if the player state is not
\* Closing.  The calls considered are those in which Invoke obtained the
\* event and its type.
C34_EventPumpProtocol ==
    [][ ret'.op = "CPlayer_Invoke" /\ ret'.out # << >> =>
            LET pEvent == Head(session.events) IN
            /\ pEvent.type # MESessionClosed =>
                   /\ ret'.out = << "BeginGetEvent" >>
                   /\ session'.requests = session.requests
                   /\ session'.requests = 1
                   /\ player'.m_hCloseEvent = player.m_hCloseEvent
            /\ pEvent.type = MESessionClosed =>
                   /\ ret'.out = << "SetEvent" >>
                   /\ player'.m_hCloseEvent
                   /\ session'.requests = 0
            /\ (posted' = Append(posted, pEvent)) <=> (player.m_state # Closing)
            /\ posted' # posted => posted' = Append(posted, pEvent)
      ]_vars


\* C36: when the application handles the MESessionStarted event that carries
\* a failure status while the player state is Started (set optimistically by
\* StartPlayback), the player leaves the state Started.
C36_FailedStartLeavesStarted ==
    [][ /\ ret'.op = "HandleEvent"
        /\ ret'.arg.type = MESessionStarted
        /\ FAILED(ret'.arg.hrStatus)
        /\ player.m_state = Started
        => player'.m_state # Started ]_vars

=============================================================================
